---- MODULE Spec2Model ----
(***************************************************************************)
(* Ingestion engine of src/resolvers/github_retrieve.js: the two paginated *)
(* list fetchers (fetchGitHubPRs, fetchGitHubIssues), the markdown tree    *)
(* walker (fetchGitHubMarkdownFiles / fetchDirectoryContents) and the join *)
(* of the three in fetchGitHubRepoData.                                    *)
(*                                                                         *)
(* Every remote call goes through caller.call of an AsyncCaller built with *)
(* maxRetries 2: a call is a sequence of attempts, each of which the       *)
(* upstream answers or fails.  What the upstream answers is drawn from     *)
(* bounded sets when the answer arrives and is recorded in served / tree.  *)
(***************************************************************************)
EXTENDS Integers, Sequences, FiniteSets, TLC

\* ---- bounds of the upstream repository and of the options --------------
MaxItems == 6        \* items of a whole listing, over all its pages
MaxPerPage == 3      \* options.perPage ranges over 1..MaxPerPage
MaxCap == 3          \* options.maxResults ranges over absent, 0..MaxCap
MaxEntries == 4      \* entries of the whole tree, over all its directories
RepoItems == 1       \* the same for a whole fetchGitHubRepoData call, where
RepoPerPage == 1     \* perPage is RepoPerPage and maxResults is absent or
RepoCap == 1         \* RepoCap
RepoEntries == 1
MaxUrlLen == 6       \* characters of the url given to parseGitHubUrl
RepoUrlLen == 5      \* the same for the ownerOrUrl of a whole fetcher call
MaxLabels == 1       \* labels of a raw issue
MaxStated == 3       \* documents of an intake summary that differ in state
MaxDated == 3        \* documents of an intake summary that differ in date
MaxHalfDays == 2     \* dates of documents: 0..MaxHalfDays half days
MaxWindow == 1       \* recencyWindowDays and staleAfterDays: absent, 0..MaxWindow
MaxAuthored == 4     \* pull requests of attention insights that differ in author
MaxTop == 2          \* topContributorCount: absent, 0..MaxTop
MaxPrs == 2          \* pull requests that differ in state and date
MaxIssues == 3       \* issues of a triage snapshot
SettlePerPage == 2   \* perPage of a fetchGitHubRepoData that is followed to its end
SettleItems == 1     \* items of each of its listings
SettleEntries == 1   \* entries of its tree

\* ---- program constants ---------------------------------------------------
maxRetries == 2      \* new AsyncCaller({ maxConcurrency: 2, maxRetries: 2 })
maxConcurrency == 2

Pipelines == {"prs", "issues", "md"}
ListPipelines == {"prs", "issues"}

VARIABLES
  ref,         \* the arguments ownerOrUrl and repo of the fetcher call
  repository,  \* owner and actualRepo, once the prologue has resolved them
  input,       \* the argument of the function call under study, if any
  output,      \* what that call returned or threw
  opts,        \* the options object shared by the fetchers of one call
  limits,      \* extent of the upstream repository: items, entries
  pc,          \* per pipeline: idle, ready, waiting, backoff, done, failed
  attempt,     \* per pipeline: attempts made for the call in progress (0: none)
  err,         \* per pipeline: the error of its failed attempt, until the retry
  documents,   \* per pipeline: the documents array
  page,        \* per list pipeline: the page variable
  hasMore,     \* per list pipeline: the hasMore variable
  stack,       \* active fetchDirectoryContents frames, innermost last
  calls,       \* per pipeline: the operations handed to caller.call, in order
  served,      \* per list pipeline: the pages the upstream returned, in order
  tree,        \* directory listings the upstream returned, by path
  agg,         \* the promise of fetchGitHubRepoData: none, pending, fulfilled, rejected
  aggValue     \* its value or its rejection reason

vars == <<ref, repository, input, output, opts, limits, pc, attempt, err, documents, page, hasMore, stack, calls,
          served, tree, agg, aggValue>>

\* ---- options -------------------------------------------------------------
\* maxResults = null (the default) is [set |-> FALSE, val |-> 0]
Absent == [set |-> FALSE, val |-> 0]
Given(k) == [set |-> TRUE, val |-> k]

\* JavaScript truthiness of maxResults: null and 0 are falsy
TruthyWhenSet(m) == m.set
Truthy(m) == m.set /\ m.val # 0

CapReachedOffByOne(m, n) == Truthy(m) /\ n > m.val
\* maxResults && documents.length >= maxResults
CapReached(m, n) == Truthy(m) /\ n >= m.val

\* ---- documents -----------------------------------------------------------
DocType(p) == IF p = "prs" THEN "pull_request" ELSE "issue"

\* a name in a template string: undefined (no name) reads "undefined"
Text(name) == IF name = <<>> THEN <<"undefined">> ELSE name

\* `${owner}/${actualRepo}`
Slug(owner, actualRepo) == Text(owner) \o <<"/">> \o Text(actualRepo)

ListDocumentOfArguments(p, item) ==
  [type |-> DocType(p), number |-> item.number,
   repository |-> IF p = "prs" THEN Slug(repository.owner, repository.repo)
                  ELSE Slug(repository.owner, ref.repo)]
\* buildGitHubDocument(content, {type, number, ..., repository}) of a list item
ListDocument(p, item) ==
  [type |-> DocType(p), number |-> item.number,
   repository |-> Slug(repository.owner, repository.repo)]

\* buildGitHubDocument(content, {type: 'markdown_file', path, ..., repository})
MarkdownDocument(item) ==
  [type |-> "markdown_file", path |-> item.path,
   repository |-> Slug(repository.owner, repository.repo)]

\* ---- one page of a list fetcher -------------------------------------------
AcceptsAll(p, item) == TRUE
\* if (issue.pull_request) continue;   (fetchGitHubIssues only)
Accepts(p, item) == ~(p = "issues" /\ item.pull_request)

RECURSIVE ProcessItemsCountingSkips(_, _, _, _, _)
ProcessItemsCountingSkips(p, m, docs, items, i) ==
  IF i > Len(items) THEN [docs |-> docs, broke |-> FALSE]
  ELSE IF CapReached(m, Len(docs) + Cardinality({j \in 1..(i-1) : ~Accepts(p, items[j])}))
       THEN [docs |-> docs, broke |-> TRUE]
  ELSE IF ~Accepts(p, items[i]) THEN ProcessItemsCountingSkips(p, m, docs, items, i + 1)
  ELSE ProcessItemsCountingSkips(p, m, Append(docs, ListDocument(p, items[i])), items, i + 1)

RECURSIVE ProcessItemsPrepending(_, _, _, _, _)
ProcessItemsPrepending(p, m, docs, items, i) ==
  IF i > Len(items) THEN [docs |-> docs, broke |-> FALSE]
  ELSE IF CapReached(m, Len(docs)) THEN [docs |-> docs, broke |-> TRUE]
  ELSE IF ~Accepts(p, items[i]) THEN ProcessItemsPrepending(p, m, docs, items, i + 1)
  ELSE ProcessItemsPrepending(p, m, <<ListDocument(p, items[i])>> \o docs, items, i + 1)

\* for (const pr of prs) { cap test; (issues: skip pull requests;) push }
\* broke: the loop was left by the break of the cap test
RECURSIVE ProcessItems(_, _, _, _, _)
ProcessItems(p, m, docs, items, i) ==
  IF i > Len(items) THEN [docs |-> docs, broke |-> FALSE]
  ELSE IF CapReached(m, Len(docs)) THEN [docs |-> docs, broke |-> TRUE]
  ELSE IF ~Accepts(p, items[i]) THEN ProcessItems(p, m, docs, items, i + 1)
  ELSE ProcessItems(p, m, Append(docs, ListDocument(p, items[i])), items, i + 1)

HasMoreAfterUnlessEmpty(p, items, broke, perPage) == ~broke
HasMoreAfterByAccepted(p, items, broke, perPage) ==
  ~broke /\ ~(Len(SelectSeq(items, LAMBDA it : Accepts(p, it))) < perPage)
\* hasMore after the for loop: the break sets it false, and so does
\* if (prs.length < perPage) hasMore = false
HasMoreAfter(p, items, broke, perPage) ==
  ~broke /\ ~(Len(items) < perPage)

NextPageStuck(n) == n
\* page++
NextPage(n) == n + 1

\* ---- the upstream ----------------------------------------------------------
\* Only the issues endpoint flags pull requests.
Flags(p) == IF p = "issues" THEN BOOLEAN ELSE {FALSE}

\* the number of items of the pages served so far
RECURSIVE ItemsServed(_)
ItemsServed(pages) ==
  IF pages = <<>> THEN 0 ELSE Len(Head(pages)) + ItemsServed(Tail(pages))

\* The items of a page: numbered by their position in the listing, so that
\* every item of a listing is distinct.
PageItems(p, flags) ==
  [i \in 1..Len(flags) |->
     [number |-> ItemsServed(served[p]) + i, pull_request |-> flags[i]]]

FlagSeqs(p, len) == [1..len -> Flags(p)]

\* what GET .../pulls|issues?per_page=..&page=.. may answer: at most perPage
\* of the items the listing has left
PageAnswers(p) ==
  LET left == limits.items - ItemsServed(served[p])
      most == IF left < opts.perPage THEN left ELSE opts.perPage
  IN {PageItems(p, f) : f \in UNION {FlagSeqs(p, len) : len \in 0..most}}


\* ---- the markdown tree -----------------------------------------------------
\* An entry of a directory listing: item.type, whether item.name ends in
\* ".md", and item.path (the indices leading to it from the root).
EntryKinds ==
  {[type |-> "file", md |-> TRUE], [type |-> "file", md |-> FALSE],
   [type |-> "symlink", md |-> TRUE], [type |-> "dir", md |-> FALSE]}

\* the number of entries of the listings served so far
RECURSIVE EntriesServed(_)
EntriesServed(dirs) ==
  IF dirs = {} THEN 0
  ELSE LET d == CHOOSE x \in dirs : TRUE IN
       Len(tree[d]) + EntriesServed(dirs \ {d})

Entries(path, kinds) ==
  [i \in 1..Len(kinds) |->
     [type |-> kinds[i].type, md |-> kinds[i].md, path |-> Append(path, i)]]

\* what GET .../contents/<path> may answer
ListingAnswers(path) ==
  {Entries(path, k) :
     k \in UNION {[1..len -> EntryKinds] :
                    len \in 0..(limits.entries - EntriesServed(DOMAIN tree))}}

IsMarkdownFileByName(item) == item.md
\* item.type === 'file' && item.name.endsWith('.md')
IsMarkdownFile(item) == item.type = "file" /\ item.md

\* item.type === 'dir'
IsDirectory(item) == item.type = "dir"

PopSkipping(stk) ==
  LET rest == SubSeq(stk, 1, Len(stk) - 1) IN
  IF rest = <<>> THEN rest
  ELSE [rest EXCEPT ![Len(rest)].idx = @ + 2]
\* Leave the innermost frame: its fetchDirectoryContents call returns and the
\* caller's for loop moves on to its next item.
Pop(stk) ==
  LET rest == SubSeq(stk, 1, Len(stk) - 1) IN
  IF rest = <<>> THEN rest
  ELSE [rest EXCEPT ![Len(rest)].idx = @ + 1]

RECURSIVE AdvanceNoCap(_, _)
AdvanceNoCap(stk, n) ==
  IF stk = <<>> THEN stk
  ELSE LET f == stk[Len(stk)] IN
       IF f.idx > Len(f.contents) THEN AdvanceNoCap(Pop(stk), n)
       ELSE IF IsMarkdownFile(f.contents[f.idx]) \/ IsDirectory(f.contents[f.idx])
            THEN stk
       ELSE AdvanceNoCap([stk EXCEPT ![Len(stk)].idx = @ + 1], n)

RECURSIVE AdvanceCapOnFilesOnly(_, _)
AdvanceCapOnFilesOnly(stk, n) ==
  IF stk = <<>> THEN stk
  ELSE LET f == stk[Len(stk)] IN
       IF f.idx > Len(f.contents) THEN AdvanceCapOnFilesOnly(Pop(stk), n)
       ELSE IF IsDirectory(f.contents[f.idx]) THEN stk
       ELSE IF CapReached(opts.maxResults, n) THEN AdvanceCapOnFilesOnly(Pop(stk), n)
       ELSE IF IsMarkdownFile(f.contents[f.idx]) THEN stk
       ELSE AdvanceCapOnFilesOnly([stk EXCEPT ![Len(stk)].idx = @ + 1], n)

\* The synchronous part of the for loops of the active frames, run until the
\* next remote call is due (the result's innermost frame stands on a markdown
\* file or on a directory) or the outermost call has returned (<<>>):
\* the end of a loop and the cap test both return from the frame, any other
\* entry is passed over.  n is documents.length.
RECURSIVE Advance(_, _)
Advance(stk, n) ==
  IF stk = <<>> THEN stk
  ELSE LET f == stk[Len(stk)] IN
       IF f.idx > Len(f.contents) THEN Advance(Pop(stk), n)
       ELSE IF CapReached(opts.maxResults, n) THEN Advance(Pop(stk), n)
       ELSE IF IsMarkdownFile(f.contents[f.idx]) \/ IsDirectory(f.contents[f.idx])
            THEN stk
       ELSE Advance([stk EXCEPT ![Len(stk)].idx = @ + 1], n)

\* the item the innermost frame stands on
CurrentItem == stack[Len(stack)].contents[stack[Len(stack)].idx]

\* the operation the next caller.call of a pipeline performs
Operation(p) ==
  IF p \in ListPipelines THEN page[p]
  ELSE IF stack = <<>> THEN [op |-> "contents", path |-> <<>>]
  ELSE IF IsMarkdownFile(CurrentItem) THEN [op |-> "download", path |-> CurrentItem.path]
  ELSE [op |-> "contents", path |-> CurrentItem.path]

\* ---- the join of fetchGitHubRepoData ---------------------------------------
\* The error of a failed attempt of pipeline p: a rejection of fetch itself
\* (cause "network") or the Error the operation body throws on !response.ok
\* (cause "status", 'Failed to fetch PRs: ...'); n is the attempt that failed.
Causes == {"network", "status"}
Failure(p, cause, n) == [error |-> p, cause |-> cause, attempt |-> n]
NoError == [error |-> "none", cause |-> "none", attempt |-> 0]

ShouldRetryOnceMore(n, cause) == n <= maxRetries + 1
ShouldRetryNetworkOnly(n, cause) == n <= maxRetries /\ cause = "network"
\* Whether the caller sends another attempt after attempt n failed: the errors
\* of both causes are plain errors without a status property, which the
\* caller retries while the budget of maxRetries lasts.
ShouldRetry(n, cause) == n <= maxRetries

\* the calls of the caller of pipeline p that are outstanding: each fetcher
\* has its own AsyncCaller and awaits each of its calls
Outstanding(p) == IF pc[p] = "waiting" THEN 1 ELSE 0

RepoDataMarkdownFirst(docs) ==
  [prs |-> docs["prs"], issues |-> docs["issues"], markdownFiles |-> docs["md"],
   all |-> docs["md"] \o docs["prs"] \o docs["issues"]]
\* { prs, issues, markdownFiles, all: [...prs, ...issues, ...markdownFiles] }
RepoData(docs) ==
  [prs |-> docs["prs"], issues |-> docs["issues"], markdownFiles |-> docs["md"],
   all |-> docs["prs"] \o docs["issues"] \o docs["md"]]

SettleAllSettled(pc2, docs2, err2) ==
  IF agg # "pending" THEN <<agg, aggValue>>
  ELSE IF \A p \in Pipelines : pc2[p] \in {"done", "failed"}
       THEN <<"fulfilled", RepoData(docs2)>>
  ELSE <<agg, aggValue>>

\* rejects only when every pipeline has settled, with the failure of the
\* first failed pipeline of the array
SettleByPosition(pc2, docs2, err2) ==
  IF agg # "pending" THEN <<agg, aggValue>>
  ELSE IF \E p \in Pipelines : pc2[p] \notin {"done", "failed"}
       THEN <<agg, aggValue>>
  ELSE IF pc2["prs"] = "failed" THEN <<"rejected", err2["prs"]>>
  ELSE IF pc2["issues"] = "failed" THEN <<"rejected", err2["issues"]>>
  ELSE IF pc2["md"] = "failed" THEN <<"rejected", err2["md"]>>
  ELSE <<"fulfilled", RepoData(docs2)>>
\* await Promise.all([...]): the state of the promise of fetchGitHubRepoData
\* once the pipelines stand at pc2 with documents docs2 and errors err2.  It
\* rejects with the error of the pipeline that fails and fulfils when the last
\* one returns; once settled it never changes.
Settle(pc2, docs2, err2) ==
  IF agg # "pending" THEN <<agg, aggValue>>
  ELSE IF \E p \in Pipelines : pc2[p] = "failed"
       THEN <<"rejected", err2[CHOOSE p \in Pipelines : pc2[p] = "failed"]>>
  ELSE IF \A p \in Pipelines : pc2[p] = "done"
       THEN <<"fulfilled", RepoData(docs2)>>
  ELSE <<agg, aggValue>>

\* ---- the repository reference ----------------------------------------------
\* A url is a sequence of characters of four kinds: the host "github.com",
\* the slash, a character of a name, and a character that ends the path of a
\* URL ("?" or "#").
Chars == {"github.com", "/", "a", "?"}

RECURSIVE Strings(_)
Strings(n) ==
  IF n = 0 THEN {<<>>}
  ELSE LET shorter == Strings(n - 1) IN
       shorter \cup {Append(u, c) : u \in {v \in shorter : Len(v) = n - 1}, c \in Chars}

\* ownerOrUrl.includes('github.com')
Includes(url) == \E i \in 1..Len(url) : url[i] = "github.com"

\* [^\/]+ from position i: the last position of the longest slash-free run
\* starting there (i - 1 when there is none)
RunEnd(url, i) ==
  LET ends == {e \in (i - 1)..Len(url) : \A k \in i..e : url[k] # "/"}
  IN CHOOSE e \in ends : \A f \in ends : f <= e

\* /github\.com\/([^\/]+)\/([^\/]+)/ matches with "github.com" at position i
MatchAt(url, i) ==
  /\ url[i] = "github.com"
  /\ i + 1 <= Len(url) /\ url[i + 1] = "/"
  /\ LET e == RunEnd(url, i + 2) IN
       /\ e >= i + 2
       /\ e + 1 <= Len(url) /\ url[e + 1] = "/"
       /\ RunEnd(url, e + 2) >= e + 2

NoRepository == [owner |-> <<>>, repo |-> <<>>]

parseGitHubUrlLenient(url) ==
  LET at == {i \in 1..Len(url) : MatchAt(url, i)} IN
  IF at = {} THEN [ok |-> TRUE, value |-> NoRepository]
  ELSE LET i == CHOOSE j \in at : \A k \in at : j <= k
           e == RunEnd(url, i + 2)
       IN [ok |-> TRUE,
           value |-> [owner |-> SubSeq(url, i + 2, e),
                      repo |-> SubSeq(url, e + 2, RunEnd(url, e + 2))]]
\* url.match(...) takes the leftmost match; no match throws
parseGitHubUrl(url) ==
  LET at == {i \in 1..Len(url) : MatchAt(url, i)} IN
  IF at = {} THEN [ok |-> FALSE, value |-> NoRepository]
  ELSE LET i == CHOOSE j \in at : \A k \in at : j <= k
           e == RunEnd(url, i + 2)
       IN [ok |-> TRUE,
           value |-> [owner |-> SubSeq(url, i + 2, e),
                      repo |-> SubSeq(url, e + 2, RunEnd(url, e + 2))]]

\* the prologue of a fetcher: a url is parsed, anything else is the owner
ResolveRepository(r) ==
  IF Includes(r.ownerOrUrl) THEN parseGitHubUrl(r.ownerOrUrl)
  ELSE [ok |-> TRUE, value |-> [owner |-> r.ownerOrUrl, repo |-> r.repo]]

PlainOwner == <<"a">>
RepoName == <<"a">>

\* new Error('Invalid GitHub URL format. Expected: ...')
InvalidUrl == [error |-> "parseGitHubUrl", cause |-> "invalid_url", attempt |-> 0]

\* ---- function calls studied on their own -----------------------------------
NoCall == [fn |-> "none"]
NotRun == [done |-> FALSE]
Returned(v) == [done |-> TRUE, threw |-> FALSE, value |-> v]
Threw(e) == [done |-> TRUE, threw |-> TRUE, value |-> e]

\* ---- raw items and their documents -----------------------------------------
\* a field holding a string, or null / undefined
Str(t) == [set |-> TRUE, text |-> t]
Null == [set |-> FALSE, text |-> ""]
\* x ? ... : ... and x || ... on such a field
TruthyStr(x) == x.set /\ x.text # ""
\* `${x}`
Render(x) == IF x.set THEN x.text ELSE "undefined"

RECURSIVE LabelLists(_)
LabelLists(n) ==
  IF n = 0 THEN {<<>>}
  ELSE LabelLists(n - 1) \cup {Append(l, "bug") : l \in LabelLists(n - 1)}

\* the raw items of the upstream, in what the normalization reads of them;
\* user is the user object (login inside) or null
RawPullRequests ==
  [number : {Null, Str("7")}, user : {Null, Str("octocat")},
   body : {Null, Str(""), Str("text")}, merged_at : {Null, Str("t1")},
   closed_at : {Null}, labels : {[set |-> FALSE, names |-> <<>>]}]

RawIssues ==
  [number : {Null, Str("7")}, user : {Null, Str("octocat")},
   body : {Null, Str(""), Str("text")}, merged_at : {Null},
   closed_at : {Null, Str("t1")},
   labels : {[set |-> FALSE, names |-> <<>>]}
              \cup {[set |-> TRUE, names |-> l] : l \in LabelLists(MaxLabels)}]

\* the template literal and the metadata of a pull request; pr.user.login of
\* a null user is a TypeError
PullRequestDocument(pr) ==
  IF ~pr.user.set THEN Threw("TypeError")
  ELSE Returned([
    pageContent |-> [number |-> Render(pr.number),
                     author |-> pr.user.text,
                     stamp |-> IF TruthyStr(pr.merged_at) THEN pr.merged_at.text ELSE "",
                     labels |-> <<>>,
                     body |-> IF TruthyStr(pr.body) THEN pr.body.text
                              ELSE "No description provided"],
    metadata |-> [type |-> "pull_request", number |-> pr.number,
                  author |-> pr.user.text, labels |-> <<>>]])

\* the same for an issue; issue.labels.map of absent labels is a TypeError,
\* and it is evaluated first
IssueDocument(issue) ==
  IF ~issue.labels.set THEN Threw("TypeError")
  ELSE IF ~issue.user.set THEN Threw("TypeError")
  ELSE Returned([
    pageContent |-> [number |-> Render(issue.number),
                     author |-> issue.user.text,
                     stamp |-> IF TruthyStr(issue.closed_at) THEN issue.closed_at.text ELSE "",
                     labels |-> issue.labels.names,
                     body |-> IF TruthyStr(issue.body) THEN issue.body.text
                              ELSE "No description provided"],
    metadata |-> [type |-> "issue", number |-> issue.number,
                  author |-> issue.user.text, labels |-> issue.labels.names]])

\* ---- the analytics of openai.js: documents and dates -------------------------
millisecondsPerDay == 1000 * 60 * 60 * 24

\* a date string of the metadata: absent, unparseable, or the ISO text of an
\* instant (milliseconds)
NoDateString == [kind |-> "absent", ms |-> 0]
InvalidDateString == [kind |-> "invalid", ms |-> 0]
IsoString(ms) == [kind |-> "iso", ms |-> ms]

\* what the analytics read of a document: the fields of its metadata
NoFields ==
  [state |-> Null, author |-> Null, created_at |-> NoDateString,
   updated_at |-> NoDateString, labels |-> [set |-> FALSE, names |-> <<>>],
   number |-> 0]

\* a document { pageContent, metadata } with these metadata
Document(fields) == [metadata |-> [set |-> TRUE, value |-> fields], own |-> NoFields]
\* a plain object carrying the fields itself
PlainObject(fields) == [metadata |-> [set |-> FALSE, value |-> NoFields], own |-> fields]

getMetadata(item) ==
  IF item.metadata.set THEN item.metadata.value ELSE item.own

\* String.prototype.toLowerCase on the strings in use
toLowerCase(t) ==
  CASE t = "OPEN" -> "open"
    [] t = "Open" -> "open"
    [] t = "Closed" -> "closed"
    [] t = "Blocker" -> "blocker"
    [] t = "P0" -> "p0"
    [] t = "Good First Issue" -> "good first issue"
    [] t = "Security" -> "security"
    [] t = "DOCS" -> "docs"
    [] OTHER -> t

\* a Date, or null
NoDate == [set |-> FALSE, ms |-> 0]
DateOf(ms) == [set |-> TRUE, ms |-> ms]

toDate(value) ==
  IF value.kind = "iso" THEN DateOf(value.ms) ELSE NoDate

differenceInDaysTruncated(targetDate, referenceDate) ==
  IF ~targetDate.set THEN Absent
  ELSE LET d == referenceDate.ms - targetDate.ms IN
       Given(IF d >= 0 THEN d \div millisecondsPerDay
             ELSE 0 - ((0 - d) \div millisecondsPerDay))
differenceInDays(targetDate, referenceDate) ==
  IF ~targetDate.set THEN Absent
  ELSE Given((referenceDate.ms - targetDate.ms) \div millisecondsPerDay)

\* .sort((a, b) => b - a) of dates: a stable sort, latest first
RECURSIVE InsertLatestFirst(_, _)
InsertLatestFirst(sorted, d) ==
  IF sorted = <<>> THEN <<d>>
  ELSE IF Head(sorted).ms >= d.ms THEN <<Head(sorted)>> \o InsertLatestFirst(Tail(sorted), d)
  ELSE <<d>> \o sorted

RECURSIVE SortLatestFirst(_)
SortLatestFirst(dates) ==
  IF dates = <<>> THEN <<>>
  ELSE InsertLatestFirst(SortLatestFirst(SubSeq(dates, 1, Len(dates) - 1)),
                         dates[Len(dates)])

\* list.map(toDate of a field).filter(Boolean).sort(latest first)[0] || null
Parsed(dates) == SelectSeq(dates, LAMBDA d : d.set)
FirstOrNull(dates) == IF dates = <<>> THEN NoDate ELSE Head(dates)
LatestOf(dates) == FirstOrNull(SortLatestFirst(Parsed(dates)))

\* date ? date.toISOString() : null
toISOString(date) == IF date.set THEN IsoString(date.ms) ELSE NoDateString

\* ---- buildGitHubIntakeSummary ------------------------------------------------
\* options.recencyWindowDays ?? 14
recencyWindowDays(options) ==
  IF options.recencyWindowDays.set THEN options.recencyWindowDays.val ELSE 14

\* (metadata.state || item.state || '').toLowerCase()
interpretState(item) ==
  LET metadata == getMetadata(item) IN
  toLowerCase(IF TruthyStr(metadata.state) THEN metadata.state.text
              ELSE IF TruthyStr(item.own.state) THEN item.own.state.text
              ELSE "")

isOpen(item) == interpretState(item) = "open"

UpdatedDates(items) == [i \in 1..Len(items) |-> toDate(getMetadata(items[i]).updated_at)]
CreatedDates(items) == [i \in 1..Len(items) |-> toDate(getMetadata(items[i]).created_at)]

mostRecentActivityOfPullRequests(prs, issues) == LatestOf(UpdatedDates(prs))
mostRecentActivity(prs, issues) ==
  LatestOf(<<LatestOf(UpdatedDates(prs)), LatestOf(UpdatedDates(issues))>>)

recentActivityWithinDefaultWindow(activity, referenceDate, options) ==
  IF activity.set THEN differenceInDays(activity, referenceDate).val <= 14
  ELSE FALSE
recentActivityWithinWindow(activity, referenceDate, options) ==
  IF activity.set
    THEN differenceInDays(activity, referenceDate).val <= recencyWindowDays(options)
  ELSE FALSE

buildGitHubIntakeSummary(payload, options) ==
  LET prs == payload.prs
      issues == payload.issues
      openPRs == SelectSeq(prs, isOpen)
      openIssues == SelectSeq(issues, isOpen)
      activity == mostRecentActivity(prs, issues)
  IN [totals |->
        [pullRequests |-> [total |-> Len(prs), open |-> Len(openPRs),
                           closed |-> Len(prs) - Len(openPRs)],
         issues |-> [total |-> Len(issues), open |-> Len(openIssues),
                     closed |-> Len(issues) - Len(openIssues)]],
      recency |->
        [lastOpenPRCreatedAt |-> toISOString(LatestOf(CreatedDates(openPRs))),
         lastPROrIssueActivityAt |-> toISOString(activity),
         daysSinceLastActivity |->
           IF activity.set THEN differenceInDays(activity, options.referenceDate)
           ELSE Absent,
         recentActivityWithinWindow |->
           recentActivityWithinWindow(activity, options.referenceDate, options)]]

\* ---- buildPullRequestAttentionInsights ---------------------------------------
\* options.staleAfterDays ?? 7, options.topContributorCount ?? 3
staleAfterDays(options) ==
  IF options.staleAfterDays.set THEN options.staleAfterDays.val ELSE 7
topContributorCount(options) ==
  IF options.topContributorCount.set THEN options.topContributorCount.val ELSE 3

\* metadata.author || 'unknown'
AuthorOf(metadata) ==
  IF TruthyStr(metadata.author) THEN metadata.author.text ELSE "unknown"

\* contributorStats.set(author, count + 1): the Map keeps a key at the place
\* of its first insertion
Counted(stats, author) ==
  IF \E k \in 1..Len(stats) : stats[k].author = author
    THEN [k \in 1..Len(stats) |->
            IF stats[k].author = author
              THEN [stats[k] EXCEPT !.pullRequestCount = @ + 1]
            ELSE stats[k]]
  ELSE Append(stats, [author |-> author, pullRequestCount |-> 1])

isOpenAlways(metadata) == TRUE
\* (metadata.state || '').toLowerCase() === 'open'
isOpenByMetadata(metadata) ==
  toLowerCase(IF TruthyStr(metadata.state) THEN metadata.state.text ELSE "") = "open"

isStaleWhateverTheState(metadata, options) ==
  LET days == differenceInDays(toDate(metadata.updated_at), options.referenceDate) IN
  days.set /\ days.val >= staleAfterDays(options)
\* isOpen && daysSinceUpdate !== null && daysSinceUpdate >= staleAfterDays
isStale(metadata, options) ==
  LET days == differenceInDays(toDate(metadata.updated_at), options.referenceDate) IN
  isOpenByMetadata(metadata) /\ days.set /\ days.val >= staleAfterDays(options)

\* the forEach over prs, from element i on
RECURSIVE ScanPullRequests(_, _, _, _)
ScanPullRequests(prs, options, i, acc) ==
  IF i > Len(prs) THEN acc
  ELSE LET metadata == getMetadata(prs[i])
           updatedAt == toDate(metadata.updated_at)
           stats == Counted(acc.contributorStats, AuthorOf(metadata))
           stale == IF isStale(metadata, options)
                      THEN Append(acc.stalePRs,
                                  [number |-> metadata.number,
                                   lastUpdatedAt |-> toISOString(updatedAt),
                                   daysSinceUpdate |->
                                     differenceInDays(updatedAt, options.referenceDate).val])
                    ELSE acc.stalePRs
       IN ScanPullRequests(prs, options, i + 1,
                           [contributorStats |-> stats, stalePRs |-> stale])

\* .sort((a, b) => b.pullRequestCount - a.pullRequestCount): a stable sort
InsertByCountBeforeEqual(sorted, c) ==
  LET before == SelectSeq(sorted, LAMBDA x : x.pullRequestCount > c.pullRequestCount)
      after == SelectSeq(sorted, LAMBDA x : x.pullRequestCount <= c.pullRequestCount)
  IN before \o <<c>> \o after
InsertByCount(sorted, c) ==
  LET before == SelectSeq(sorted, LAMBDA x : x.pullRequestCount >= c.pullRequestCount)
      after == SelectSeq(sorted, LAMBDA x : x.pullRequestCount < c.pullRequestCount)
  IN before \o <<c>> \o after

RECURSIVE SortByCount(_)
SortByCount(stats) ==
  IF stats = <<>> THEN <<>>
  ELSE InsertByCount(SortByCount(SubSeq(stats, 1, Len(stats) - 1)), stats[Len(stats)])

\* .slice(0, n)
Slice(list, n) == SubSeq(list, 1, IF n < Len(list) THEN n ELSE Len(list))

buildPullRequestAttentionInsights(prs, options) ==
  LET scanned == ScanPullRequests(prs, options, 1,
                                  [contributorStats |-> <<>>, stalePRs |-> <<>>])
  IN [totals |-> [pullRequests |-> Len(prs), stale |-> Len(scanned.stalePRs)],
      stalePullRequests |-> scanned.stalePRs,
      topContributors |->
        Slice(SortByCount(scanned.contributorStats), topContributorCount(options)),
      suggestedAction |->
        IF Len(scanned.stalePRs) > 0
          THEN "Reach out to reviewers on the stale pull requests to unblock merges."
        ELSE "No stale pull requests detected. Keep encouraging these contributors!"]

\* ---- buildIssueTriageSnapshot -------------------------------------------------
\* a list of labels of the options, or none
NoList == [set |-> FALSE, names |-> <<>>]
ListOf(names) == [set |-> TRUE, names |-> names]

\* options.blockerLabels || [...], and so on; an array is truthy even when
\* empty
labelMatchers(options) ==
  [blockers |-> IF options.blockerLabels.set THEN options.blockerLabels.names
                ELSE <<"blocker", "critical", "p0", "urgent">>,
   onboarding |-> IF options.onboardingLabels.set THEN options.onboardingLabels.names
                  ELSE <<"good first issue", "starter", "help wanted">>,
   security |-> IF options.securityLabels.set THEN options.securityLabels.names
                ELSE <<"security", "vulnerability", "cve">>]

\* Array.isArray(metadata.labels) ? metadata.labels.map(toLowerCase) : []
LowerLabels(metadata) ==
  IF metadata.labels.set
    THEN [k \in 1..Len(metadata.labels.names) |-> toLowerCase(metadata.labels.names[k])]
  ELSE <<>>

\* labelList.some((needle) => labels.includes(needle.toLowerCase()))
matchesLabel(labels, labelList) ==
  \E n \in 1..Len(labelList) : \E k \in 1..Len(labels) :
    labels[k] = toLowerCase(labelList[n])

BucketOfSecurityFirst(metadata, options) ==
  LET labels == LowerLabels(metadata)
      matchers == labelMatchers(options)
  IN IF matchesLabel(labels, matchers.security) THEN "security"
     ELSE IF matchesLabel(labels, matchers.blockers) THEN "blockers"
     ELSE IF matchesLabel(labels, matchers.onboarding) THEN "onboarding"
     ELSE "otherOpen"
\* the chain of ifs with early returns of the forEach callback
BucketOf(metadata, options) ==
  LET labels == LowerLabels(metadata)
      matchers == labelMatchers(options)
  IN IF matchesLabel(labels, matchers.blockers) THEN "blockers"
     ELSE IF matchesLabel(labels, matchers.onboarding) THEN "onboarding"
     ELSE IF matchesLabel(labels, matchers.security) THEN "security"
     ELSE "otherOpen"

BucketNames == {"blockers", "onboarding", "security", "otherOpen"}

\* the forEach over issues, from element i on
RECURSIVE ScanIssues(_, _, _, _)
ScanIssues(issues, options, i, buckets) ==
  IF i > Len(issues) THEN buckets
  ELSE LET metadata == getMetadata(issues[i])
           issueSummary == [number |-> metadata.number,
                            labels |-> IF metadata.labels.set THEN metadata.labels.names
                                       ELSE <<>>,
                            lastUpdatedAt |-> metadata.updated_at]
       IN IF ~isOpenByMetadata(metadata)
            THEN ScanIssues(issues, options, i + 1, buckets)
          ELSE ScanIssues(issues, options, i + 1,
                          [buckets EXCEPT ![BucketOf(metadata, options)] =
                                            Append(@, issueSummary)])

buildIssueTriageSnapshot(issues, options) ==
  LET buckets == ScanIssues(issues, options, 1, [b \in BucketNames |-> <<>>]) IN
  [totals |-> [openIssues |-> Len(buckets.blockers) + Len(buckets.onboarding)
                               + Len(buckets.security) + Len(buckets.otherOpen),
               blockers |-> Len(buckets.blockers),
               onboarding |-> Len(buckets.onboarding),
               security |-> Len(buckets.security)],
   buckets |-> buckets,
   suggestedAction |->
     IF Len(buckets.blockers) > 0
       THEN "Prioritise the blocker issues first to stabilise the project."
     ELSE "No critical blockers detected. Consider pairing newcomers with onboarding-friendly issues."]

\* ---- actions ---------------------------------------------------------------
CallStartUnlessRejected(p) ==
  /\ pc[p] = "ready"
  /\ agg # "rejected"
  /\ Outstanding(p) < maxConcurrency
  /\ pc' = [pc EXCEPT ![p] = "waiting"]
  /\ attempt' = [attempt EXCEPT ![p] = 1]
  /\ calls' = [calls EXCEPT ![p] = Append(@, Operation(p))]
  /\ UNCHANGED <<ref, repository, input, output, opts, limits, err, documents, page, hasMore, stack, served, tree,
                 agg, aggValue>>
\* caller.call(async () => ...): the first attempt of an operation is sent
CallStart(p) ==
  /\ pc[p] = "ready"
  /\ Outstanding(p) < maxConcurrency
  /\ pc' = [pc EXCEPT ![p] = "waiting"]
  /\ attempt' = [attempt EXCEPT ![p] = 1]
  /\ calls' = [calls EXCEPT ![p] = Append(@, Operation(p))]
  /\ UNCHANGED <<ref, repository, input, output, opts, limits, err, documents, page, hasMore, stack, served, tree,
                 agg, aggValue>>

AttemptFailReturning(p) ==
  /\ pc[p] = "waiting"
  /\ \E cause \in Causes :
       LET pc2 == [pc EXCEPT ![p] = IF ShouldRetry(attempt[p], cause)
                                    THEN "backoff" ELSE "done"]
           err2 == [err EXCEPT ![p] = Failure(p, cause, attempt[p])]
       IN /\ pc' = pc2
          /\ err' = err2
          /\ agg' = Settle(pc2, documents, err2)[1]
          /\ aggValue' = Settle(pc2, documents, err2)[2]
  /\ UNCHANGED <<ref, repository, input, output, opts, limits, attempt, documents, page, hasMore, stack, calls,
                 served, tree>>
\* An attempt fails (fetch rejects, or !response.ok makes the body throw):
\* the caller retries while attempts remain, else the fetcher's promise
\* rejects with the error.
AttemptFail(p) ==
  /\ pc[p] = "waiting"
  /\ \E cause \in Causes :
       LET pc2 == [pc EXCEPT ![p] = IF ShouldRetry(attempt[p], cause)
                                    THEN "backoff" ELSE "failed"]
           err2 == [err EXCEPT ![p] = Failure(p, cause, attempt[p])]
       IN /\ pc' = pc2
          /\ err' = err2
          /\ agg' = Settle(pc2, documents, err2)[1]
          /\ aggValue' = Settle(pc2, documents, err2)[2]
  /\ UNCHANGED <<ref, repository, input, output, opts, limits, attempt, documents, page, hasMore, stack, calls,
                 served, tree>>

RetryAdvancing(p) ==
  /\ pc[p] = "backoff"
  /\ pc' = [pc EXCEPT ![p] = "waiting"]
  /\ attempt' = [attempt EXCEPT ![p] = @ + 1]
  /\ err' = [err EXCEPT ![p] = NoError]
  /\ page' = [q \in ListPipelines |-> IF q = p THEN NextPage(page[q]) ELSE page[q]]
  /\ UNCHANGED <<ref, repository, input, output, opts, limits, documents, hasMore, stack, calls, served,
                 tree, agg, aggValue>>
\* the backoff delay has passed: the next attempt is sent
Retry(p) ==
  /\ pc[p] = "backoff"
  /\ pc' = [pc EXCEPT ![p] = "waiting"]
  /\ attempt' = [attempt EXCEPT ![p] = @ + 1]
  /\ err' = [err EXCEPT ![p] = NoError]
  /\ UNCHANGED <<ref, repository, input, output, opts, limits, documents, page, hasMore, stack, calls, served,
                 tree, agg, aggValue>>

\* A page arrives: the rest of the while body of fetchGitHubPRs /
\* fetchGitHubIssues, up to the next caller.call or to return documents.
ListPageOk(p) ==
  /\ p \in ListPipelines
  /\ pc[p] = "waiting"
  /\ \E items \in PageAnswers(p) :
       LET r == ProcessItems(p, opts.maxResults, documents[p], items, 1)
           more == IF Len(items) = 0 THEN FALSE
                   ELSE HasMoreAfter(p, items, r.broke, opts.perPage)
           docs2 == [documents EXCEPT ![p] = IF Len(items) = 0 THEN @ ELSE r.docs]
           pc2 == [pc EXCEPT ![p] = IF more THEN "ready" ELSE "done"]
       IN /\ served' = [served EXCEPT ![p] = Append(@, items)]
          /\ documents' = docs2
          /\ hasMore' = [hasMore EXCEPT ![p] = more]
          /\ page' = [page EXCEPT ![p] = IF Len(items) = 0 THEN @ ELSE NextPage(@)]
          /\ pc' = pc2
          /\ agg' = Settle(pc2, docs2, err)[1]
          /\ aggValue' = Settle(pc2, docs2, err)[2]
  /\ attempt' = [attempt EXCEPT ![p] = 0]
  /\ UNCHANGED <<ref, repository, input, output, opts, limits, err, stack, calls, tree>>

\* A directory listing arrives: a new fetchDirectoryContents frame runs its
\* for loop up to the next caller.call; when the outermost frame returns,
\* fetchGitHubMarkdownFiles returns documents.
MdListOk ==
  /\ pc["md"] = "waiting"
  /\ Operation("md").op = "contents"
  /\ \E contents \in ListingAnswers(Operation("md").path) :
       LET path == Operation("md").path
           stk2 == Advance(Append(stack, [path |-> path, contents |-> contents,
                                          idx |-> 1]),
                           Len(documents["md"]))
           pc2 == [pc EXCEPT !["md"] = IF stk2 = <<>> THEN "done" ELSE "ready"]
       IN /\ tree' = (path :> contents) @@ tree
          /\ stack' = stk2
          /\ pc' = pc2
          /\ agg' = Settle(pc2, documents, err)[1]
          /\ aggValue' = Settle(pc2, documents, err)[2]
  /\ attempt' = [attempt EXCEPT !["md"] = 0]
  /\ UNCHANGED <<ref, repository, input, output, opts, limits, err, documents, page, hasMore, calls, served>>

\* The raw content of a markdown file arrives: the document is pushed and the
\* for loops go on up to the next caller.call or to return documents.
MdFileOk ==
  /\ pc["md"] = "waiting"
  /\ Operation("md").op = "download"
  /\ LET docs2 == [documents EXCEPT !["md"] = Append(@, MarkdownDocument(CurrentItem))]
         stk2 == Advance([stack EXCEPT ![Len(stack)].idx = @ + 1],
                         Len(docs2["md"]))
         pc2 == [pc EXCEPT !["md"] = IF stk2 = <<>> THEN "done" ELSE "ready"]
     IN /\ documents' = docs2
        /\ stack' = stk2
        /\ pc' = pc2
        /\ agg' = Settle(pc2, docs2, err)[1]
        /\ aggValue' = Settle(pc2, docs2, err)[2]
  /\ attempt' = [attempt EXCEPT !["md"] = 0]
  /\ UNCHANGED <<ref, repository, input, output, opts, limits, err, page, hasMore, calls, served, tree>>

\* The synchronous prologue of every fetcher that was called: each resolves
\* the reference on its own; a throw rejects its promise before any call.
Invoke ==
  LET called == {p \in Pipelines : pc[p] = "called"}
      r == ResolveRepository(ref)
      pc2 == [p \in Pipelines |->
                IF p \in called THEN (IF r.ok THEN "ready" ELSE "failed") ELSE pc[p]]
      err2 == [p \in Pipelines |->
                IF p \in called /\ ~r.ok THEN InvalidUrl ELSE err[p]]
      s == Settle(pc2, documents, err2)
  IN /\ called # {}
     /\ repository' = r.value
     /\ pc' = pc2
     /\ err' = err2
     /\ agg' = s[1]
     /\ aggValue' = s[2]
     /\ UNCHANGED <<ref, input, output, opts, limits, attempt, documents, page,
                    hasMore, stack, calls, served, tree>>

\* !owner || !repo || !accessToken
Missing(payload) ==
  payload.owner = <<>> \/ payload.repo = <<>> \/ payload.accessToken = <<>>

\* new Error('Missing required parameters: owner, repo, accessToken')
MissingParameters == [error |-> "getGitHubRepoData", cause |-> "missing_parameters"]

\* error.message: it names what failed and why, not the attempt
Message(error) == [error |-> error.error, cause |-> error.cause]

\* The resolver getGitHubRepoData is called: the throw of the validation lands
\* in its own catch; otherwise fetchGitHubRepoData(owner, repo, {accessToken})
\* calls the three fetchers and the resolver awaits it.
ResolverCall ==
  /\ input.fn = "getGitHubRepoData" /\ ~output.done /\ agg = "none"
  /\ IF Missing(input.payload)
       THEN /\ output' = Returned([success |-> FALSE, error |-> MissingParameters])
            /\ UNCHANGED <<ref, pc, agg>>
       ELSE /\ ref' = [ownerOrUrl |-> input.payload.owner, repo |-> input.payload.repo]
            /\ pc' = [p \in Pipelines |-> "called"]
            /\ agg' = "pending"
            /\ UNCHANGED output
  /\ UNCHANGED <<repository, input, opts, limits, attempt, err, documents, page, hasMore, stack, calls,
                 served, tree, aggValue>>

ResolverReturnRethrowing ==
  /\ input.fn = "getGitHubRepoData" /\ ~output.done
  /\ agg \in {"fulfilled", "rejected"}
  /\ output' =
       IF agg = "fulfilled"
         THEN Returned([success |-> TRUE, prs |-> aggValue.prs, issues |-> aggValue.issues,
                        markdownFiles |-> aggValue.markdownFiles,
                        total |-> Len(aggValue.all)])
       ELSE Threw(aggValue)
  /\ UNCHANGED <<ref, repository, input, opts, limits, pc, attempt, err, documents, page, hasMore, stack,
                 calls, served, tree, agg, aggValue>>
\* The await of the resolver is over: it returns the data with their total,
\* or its catch returns the message of the rejection.
ResolverReturn ==
  /\ input.fn = "getGitHubRepoData" /\ ~output.done
  /\ agg \in {"fulfilled", "rejected"}
  /\ output' =
       IF agg = "fulfilled"
         THEN Returned([success |-> TRUE, prs |-> aggValue.prs, issues |-> aggValue.issues,
                        markdownFiles |-> aggValue.markdownFiles,
                        total |-> Len(aggValue.all)])
       ELSE Returned([success |-> FALSE, error |-> Message(aggValue)])
  /\ UNCHANGED <<ref, repository, input, opts, limits, pc, attempt, err, documents, page, hasMore, stack,
                 calls, served, tree, agg, aggValue>>

\* parseGitHubUrl(url), called on its own
CallParseGitHubUrl ==
  /\ input.fn = "parseGitHubUrl" /\ ~output.done
  /\ output' = (LET r == parseGitHubUrl(input.arg) IN
                  IF r.ok THEN Returned(r.value) ELSE Threw(InvalidUrl))
  /\ UNCHANGED <<ref, repository, input, opts, limits, pc, attempt, err, documents,
                 page, hasMore, stack, calls, served, tree, agg, aggValue>>

\* one iteration of the for loop of a list fetcher, past the cap test and the
\* pull_request test: the document of one raw item is built
Normalize ==
  /\ input.fn \in {"pull_request", "issue"} /\ ~output.done
  /\ output' = (IF input.fn = "pull_request" THEN PullRequestDocument(input.arg)
                ELSE IssueDocument(input.arg))
  /\ UNCHANGED <<ref, repository, input, opts, limits, pc, attempt, err, documents,
                 page, hasMore, stack, calls, served, tree, agg, aggValue>>

\* buildGitHubIntakeSummary(payload, options), called on its own
CallBuildGitHubIntakeSummary ==
  /\ input.fn = "buildGitHubIntakeSummary" /\ ~output.done
  /\ output' = Returned(buildGitHubIntakeSummary(input.arg, input.options))
  /\ UNCHANGED <<ref, repository, input, opts, limits, pc, attempt, err, documents,
                 page, hasMore, stack, calls, served, tree, agg, aggValue>>

\* buildPullRequestAttentionInsights(prs, options), called on its own
CallBuildPullRequestAttentionInsights ==
  /\ input.fn = "buildPullRequestAttentionInsights" /\ ~output.done
  /\ output' = Returned(buildPullRequestAttentionInsights(input.arg, input.options))
  /\ UNCHANGED <<ref, repository, input, opts, limits, pc, attempt, err, documents,
                 page, hasMore, stack, calls, served, tree, agg, aggValue>>

\* buildIssueTriageSnapshot(issues, options), called on its own
CallBuildIssueTriageSnapshot ==
  /\ input.fn = "buildIssueTriageSnapshot" /\ ~output.done
  /\ output' = Returned(buildIssueTriageSnapshot(input.arg, input.options))
  /\ UNCHANGED <<ref, repository, input, opts, limits, pc, attempt, err, documents,
                 page, hasMore, stack, calls, served, tree, agg, aggValue>>

\* ---- initial states --------------------------------------------------------
OptionSets(perPages, caps) ==
  [perPage : perPages, maxResults : {Absent} \cup {Given(k) : k \in caps}]

\* the variables of the fetchers in `active`, each at `at`
StartPipelines(active, at, joined) ==
  /\ pc = [p \in Pipelines |-> IF p \in active THEN at ELSE "idle"]
  /\ attempt = [p \in Pipelines |-> 0]
  /\ err = [p \in Pipelines |-> NoError]
  /\ documents = [p \in Pipelines |-> <<>>]
  /\ page = [p \in ListPipelines |-> 1]
  /\ hasMore = [p \in ListPipelines |-> TRUE]
  /\ stack = <<>>
  /\ calls = [p \in Pipelines |-> <<>>]
  /\ served = [p \in ListPipelines |-> <<>>]
  /\ tree = <<>>
  /\ agg = IF joined THEN "pending" ELSE "none"
  /\ aggValue = <<>>

\* the state right after the synchronous prologue of the fetchers in `active`,
\* called with an owner and a repository name
Start(active, joined) ==
  /\ ref = [ownerOrUrl |-> PlainOwner, repo |-> RepoName]
  /\ repository = ResolveRepository(ref).value
  /\ input = NoCall
  /\ output = NotRun
  /\ StartPipelines(active, "ready", joined)

\* one call of fetchGitHubPRs or of fetchGitHubIssues
InitList ==
  /\ opts \in OptionSets(1..MaxPerPage, 0..MaxCap)
  /\ limits = [items |-> MaxItems, entries |-> 0]
  /\ \E p \in ListPipelines : Start({p}, FALSE)

\* one call of fetchGitHubMarkdownFiles
InitTree ==
  /\ opts \in OptionSets({1}, 0..MaxCap)
  /\ limits = [items |-> 0, entries |-> MaxEntries]
  /\ Start({"md"}, FALSE)

\* one call of fetchGitHubRepoData: the three fetchers get the same options
InitRepo ==
  /\ opts \in OptionSets({RepoPerPage}, {RepoCap})
  /\ limits = [items |-> RepoItems, entries |-> RepoEntries]
  /\ Start(Pipelines, TRUE)

NextList == \E p \in ListPipelines :
  CallStart(p) \/ AttemptFail(p) \/ Retry(p) \/ ListPageOk(p)

NextTree ==
  CallStart("md") \/ AttemptFail("md") \/ Retry("md") \/ MdListOk \/ MdFileOk

NextRepo ==
  \/ \E p \in Pipelines : CallStart(p) \/ AttemptFail(p) \/ Retry(p)
  \/ \E p \in ListPipelines : ListPageOk(p)
  \/ MdListOk
  \/ MdFileOk

\* one call of any of the four entry points with a url (or with the plain
\* owner) on an empty repository, before the prologue has run
Refs == {u \in Strings(RepoUrlLen) : Includes(u)} \cup {PlainOwner}

InitRef ==
  /\ ref \in [ownerOrUrl : Refs, repo : {RepoName}]
  /\ repository = NoRepository
  /\ input = NoCall
  /\ output = NotRun
  /\ opts \in OptionSets({RepoPerPage}, {})
  /\ limits = [items |-> 0, entries |-> 0]
  /\ \E active \in {{p} : p \in Pipelines} \cup {Pipelines} :
        StartPipelines(active, "called", active = Pipelines)

\* the urls that name a repository in the fewest characters
ShortestUrls ==
  LET named == {u \in Refs : Includes(u) /\ parseGitHubUrl(u).ok} IN
  {u \in named : \A v \in named : Len(u) <= Len(v)}

\* no repo argument: undefined
NoName == <<>>

\* One call of an entry point, before the prologue has run, with an owner and
\* a repository name or with a url and no repo argument, on a repository of
\* listings shorter than a page: a single fetcher with any url, or
\* fetchGitHubRepoData with a shortest url.
InitRepository ==
  /\ input = NoCall
  /\ output = NotRun
  /\ repository = NoRepository
  /\ opts \in OptionSets({SettlePerPage}, {})
  /\ limits = [items |-> SettleItems, entries |-> SettleEntries]
  /\ \/ /\ ref \in [ownerOrUrl : {PlainOwner}, repo : {RepoName}]
                   \cup [ownerOrUrl : Refs \ {PlainOwner}, repo : {NoName}]
        /\ \E p \in Pipelines : StartPipelines({p}, "called", FALSE)
     \/ /\ ref \in [ownerOrUrl : {PlainOwner}, repo : {RepoName}]
                   \cup [ownerOrUrl : ShortestUrls, repo : {NoName}]
        /\ StartPipelines(Pipelines, "called", TRUE)

NextRepository == Invoke \/ NextRepo

\* an access token
Token == <<"t">>

\* One call of the resolver getGitHubRepoData: each of owner, repo and
\* accessToken is there or missing; the owner is a plain name or a url that
\* names no repository.  The resolver passes no perPage and no maxResults:
\* the listings are shorter than a page.
Payloads ==
  [owner : {NoName, PlainOwner} \cup {u \in Refs : ~ResolveRepository([ownerOrUrl |-> u, repo |-> RepoName]).ok},
   repo : {NoName, RepoName},
   accessToken : {NoName, Token}]

InitResolver ==
  /\ input \in [fn : {"getGitHubRepoData"}, payload : Payloads]
  /\ output = NotRun
  /\ ref = [ownerOrUrl |-> NoName, repo |-> NoName]
  /\ repository = NoRepository
  /\ opts \in OptionSets({SettlePerPage}, {})
  /\ limits = [items |-> SettleItems, entries |-> SettleEntries]
  /\ StartPipelines({}, "idle", FALSE)

NextResolver == ResolverCall \/ Invoke \/ NextRepo \/ ResolverReturn

NextRef ==
  \/ Invoke
  \/ \E p \in Pipelines : CallStart(p) \/ AttemptFail(p) \/ Retry(p)
  \/ \E p \in ListPipelines : ListPageOk(p)
  \/ MdListOk

\* parseGitHubUrl on every url of up to MaxUrlLen characters
InitUrl ==
  /\ input \in [fn : {"parseGitHubUrl"}, arg : Strings(MaxUrlLen)]
  /\ output = NotRun
  /\ ref = [ownerOrUrl |-> PlainOwner, repo |-> RepoName]
  /\ repository = NoRepository
  /\ opts \in OptionSets({1}, {})
  /\ limits = [items |-> 0, entries |-> 0]
  /\ StartPipelines({}, "idle", FALSE)

\* the document of every raw pull request and of every raw issue
InitNormalize ==
  /\ input \in [fn : {"pull_request"}, arg : RawPullRequests]
               \cup [fn : {"issue"}, arg : RawIssues]
  /\ output = NotRun
  /\ ref = [ownerOrUrl |-> PlainOwner, repo |-> RepoName]
  /\ repository = NoRepository
  /\ opts \in OptionSets({1}, {})
  /\ limits = [items |-> 0, entries |-> 0]
  /\ StartPipelines({}, "idle", FALSE)

\* no fetcher is running: a function is studied on its own
NoFetch ==
  /\ ref = [ownerOrUrl |-> PlainOwner, repo |-> RepoName]
  /\ repository = NoRepository
  /\ opts \in OptionSets({1}, {})
  /\ limits = [items |-> 0, entries |-> 0]
  /\ StartPipelines({}, "idle", FALSE)

\* the lists of at most n elements of S, and the pairs of lists of at most n
\* elements together
Lists(S, n) == UNION {[1..k -> S] : k \in 0..n}
ListPairs(S, n) ==
  UNION {[prs : [1..k -> S], issues : Lists(S, n - k)] : k \in 0..n}

\* documents and objects that differ in where and how they carry their state
StatedItems ==
  {Document([NoFields EXCEPT !.state = st]) :
     st \in {Null, Str(""), Str("open"), Str("OPEN"), Str("closed"), Str("opened")}}
  \cup {PlainObject([NoFields EXCEPT !.state = st]) : st \in {Null, Str("Open")}}
  \cup {[metadata |-> [set |-> TRUE, value |-> NoFields],
         own |-> [NoFields EXCEPT !.state = Str("open")]]}

\* the dates of documents, and the reference dates: the same day, seven days
\* and a half later, fifteen days later
halfDay == millisecondsPerDay \div 2
DateStrings ==
  {NoDateString, InvalidDateString} \cup {IsoString(h * halfDay) : h \in 0..MaxHalfDays}
ReferenceDates == {DateOf(0), DateOf(15 * halfDay), DateOf(30 * halfDay)}
Thresholds == {Absent} \cup {Given(k) : k \in 0..MaxWindow}

\* open documents that differ in their updated_at
DatedItems ==
  {Document([NoFields EXCEPT !.state = Str("open"), !.updated_at = d]) :
     d \in DateStrings}

\* buildGitHubIntakeSummary on lists that differ in state, and on lists that
\* differ in dates under every reference date and window
InitSummary ==
  /\ \/ input \in [fn : {"buildGitHubIntakeSummary"},
                    arg : ListPairs(StatedItems, MaxStated),
                    options : [recencyWindowDays : {Absent},
                               referenceDate : {DateOf(0)}]]
     \/ input \in [fn : {"buildGitHubIntakeSummary"},
                    arg : ListPairs(DatedItems, MaxDated),
                    options : [recencyWindowDays : Thresholds,
                               referenceDate : ReferenceDates]]
  /\ output = NotRun
  /\ NoFetch

\* the documents of a list, numbered by their place in it
Numbered(list) ==
  [i \in 1..Len(list) |->
     [list[i] EXCEPT !.metadata.value.number = i, !.own.number = i]]

\* pull requests that differ in their author
AuthoredItems ==
  {Document([NoFields EXCEPT !.state = Str("closed"), !.author = a]) :
     a \in {Null, Str("a"), Str("b"), Str("c")}}

\* pull requests that differ in state and in their updated_at
AgedItems ==
  {Document([NoFields EXCEPT !.state = st, !.author = Str("a"), !.updated_at = d]) :
     st \in {Null, Str("open"), Str("Open"), Str("closed")}, d \in DateStrings}

InitAttention ==
  /\ \/ input \in [fn : {"buildPullRequestAttentionInsights"},
                    arg : {Numbered(l) : l \in Lists(AuthoredItems, MaxAuthored)},
                    options : [staleAfterDays : {Absent},
                               topContributorCount :
                                 {Absent} \cup {Given(k) : k \in 0..MaxTop},
                               referenceDate : {DateOf(0)}]]
     \/ input \in [fn : {"buildPullRequestAttentionInsights"},
                    arg : {Numbered(l) : l \in Lists(AgedItems, MaxPrs)},
                    options : [staleAfterDays : Thresholds,
                               topContributorCount : {Absent},
                               referenceDate : ReferenceDates]]
  /\ output = NotRun
  /\ NoFetch

\* the labels of issues: none at all, and lists matching no, one or several
\* categories, in any case and order
LabelSets ==
  {NoList, ListOf(<<>>), ListOf(<<"Blocker">>), ListOf(<<"good first issue">>),
   ListOf(<<"Security">>), ListOf(<<"docs">>),
   ListOf(<<"Good First Issue", "P0">>), ListOf(<<"security", "good first issue">>),
   ListOf(<<"security", "blocker">>), ListOf(<<"docs", "Security", "starter", "Blocker">>)}

\* open issues of every labelling, and issues that are not open
TriagedItems ==
  {Document([NoFields EXCEPT !.state = Str("open"), !.labels = l]) : l \in LabelSets}
  \cup {Document([NoFields EXCEPT !.state = st, !.labels = ListOf(<<"Blocker">>)]) :
          st \in {Null, Str("OPEN"), Str("closed")}}

\* the default keywords, no blocker keyword at all, or "DOCS" as the blocker
\* keyword
InitTriage ==
  /\ input \in [fn : {"buildIssueTriageSnapshot"},
                arg : {Numbered(l) : l \in Lists(TriagedItems, MaxIssues)},
                options : [blockerLabels : {NoList, ListOf(<<>>), ListOf(<<"DOCS">>)},
                           onboardingLabels : {NoList},
                           securityLabels : {NoList}]]
  /\ output = NotRun
  /\ NoFetch

\* one call of any one of the three fetchers
InitFetcher == InitList \/ InitTree
NextFetcher == NextList \/ NextTree

Init == InitRepo
Next == NextRepo

SpecList == InitList /\ [][NextList]_vars
SpecTree == InitTree /\ [][NextTree]_vars
Spec == Init /\ [][Next]_vars
SpecFetcher == InitFetcher /\ [][NextFetcher]_vars
SpecRef == InitRef /\ [][NextRef]_vars
SpecRepository == InitRepository /\ [][NextRepository]_vars
SpecResolver == InitResolver /\ [][NextResolver]_vars
SpecUrl == InitUrl /\ [][CallParseGitHubUrl]_vars
SpecNormalize == InitNormalize /\ [][Normalize]_vars
SpecSummary == InitSummary /\ [][CallBuildGitHubIntakeSummary]_vars
SpecAttention == InitAttention /\ [][CallBuildPullRequestAttentionInsights]_vars
SpecTriage == InitTriage /\ [][CallBuildIssueTriageSnapshot]_vars

\* Every step of fetcher p.  The event loop runs a continuation that is ready
\* and the timer of a backoff fires; a remote call that is outstanding
\* returns or fails.  So a fetcher that can take a step does not wait for
\* ever.
Step(p) ==
  \/ CallStart(p) \/ AttemptFail(p) \/ Retry(p)
  \/ p \in ListPipelines /\ ListPageOk(p)
  \/ p = "md" /\ (MdListOk \/ MdFileOk)

Fairness == \A p \in Pipelines : WF_vars(Step(p))

\* one call of fetchGitHubRepoData without a cap, or one call of a list
\* fetcher on a listing of several pages
InitSettles ==
  \/ /\ opts \in OptionSets({SettlePerPage}, {})
     /\ limits = [items |-> SettleItems, entries |-> SettleEntries]
     /\ Start(Pipelines, TRUE)
  \/ InitList

\* the fetchers with every remote call returning or failing in the end
SpecSettles == InitSettles /\ [][Next]_vars /\ Fairness


\* ---- reference definitions for the properties -------------------------------
Min(a, b) == IF a < b THEN a ELSE b

RECURSIVE Flatten(_)
Flatten(pages) ==
  IF pages = <<>> THEN <<>> ELSE Head(pages) \o Flatten(Tail(pages))

\* the upstream items a list fetcher is to turn into documents
Wanted(p, item) == p = "prs" \/ ~item.pull_request

\* the documents of the wanted items of a sequence of upstream items, in order
WantedDocs(p, items) ==
  LET w == SelectSeq(items, LAMBDA it : Wanted(p, it)) IN
  [i \in 1..Len(w) |->
     [type |-> IF p = "prs" THEN "pull_request" ELSE "issue", number |-> w[i].number,
      repository |-> Slug(repository.owner, repository.repo)]]

LastPage(p) == served[p][Len(served[p])]

K == opts.maxResults.val

\* a cap is configured: maxResults is given and not 0
Capped == opts.maxResults.set /\ K >= 1

\* ---- C1 ----------------------------------------------------------------------
\* C1: with a configured cap, once documents.length has reached maxResults a
\* list fetcher starts no further page request and normalizes no further
\* item.
C1_NoRequestAfterCap ==
  [][\A p \in ListPipelines :
       (Capped /\ Len(documents[p]) >= K)
         => (calls'[p] = calls[p] /\ documents'[p] = documents[p])]_vars

\* ---- C2 ----------------------------------------------------------------------
\* C2 as stated: for every maxResults = K given in the options a list fetcher
\* holds at most K documents.
C2_AtMostK_EveryK ==
  \A p \in ListPipelines :
    opts.maxResults.set => Len(documents[p]) <= K

\* C2 amended: for every maxResults = K >= 1 given in the options a list
\* fetcher holds at most K documents.
C2_AtMostK ==
  \A p \in ListPipelines :
    (opts.maxResults.set /\ K >= 1) => Len(documents[p]) <= K

\* the cap cut the result short: more wanted items were served than returned
C2_Witness ==
  \E p \in ListPipelines :
    /\ pc[p] = "done" /\ Capped /\ Len(documents[p]) = K
    /\ Len(WantedDocs(p, Flatten(served[p]))) > K

\* ---- C3 ----------------------------------------------------------------------
\* C3: when a page arrives, a raw size below perPage ends the fetch (an empty
\* page adding nothing, a short one being processed to its end unless the cap
\* cuts it); a raw size of perPage with the cap not reached makes the fetcher
\* go on with the next page number, whatever number of items was accepted;
\* a fetcher that has ended requests nothing more.
C3_PageSizeDecides ==
  [][\A p \in ListPipelines :
       /\ Len(served'[p]) = Len(served[p]) + 1 =>
            LET items == served'[p][Len(served'[p])]
                capHit == CapReached(opts.maxResults, Len(documents'[p]))
            IN /\ Len(items) < opts.perPage => pc'[p] = "done"
               /\ Len(items) = 0 => documents'[p] = documents[p]
               /\ (Len(items) < opts.perPage /\ ~capHit)
                    => documents'[p] = documents[p] \o WantedDocs(p, items)
               /\ (Len(items) = opts.perPage /\ ~capHit)
                    => /\ pc'[p] = "ready"
                       /\ page'[p] = page[p] + 1
                       /\ documents'[p] = documents[p] \o WantedDocs(p, items)
       /\ pc[p] = "done" => calls'[p] = calls[p]
       /\ Len(calls'[p]) > Len(calls[p])
            => (pc[p] = "ready" /\ calls'[p] = Append(calls[p], page[p]))]_vars

\* a full page of issues with a pull request in it was answered and the
\* fetcher has requested the page after it
C3_Witness ==
  /\ Len(served["issues"]) = 1
  /\ Len(LastPage("issues")) = opts.perPage
  /\ \E i \in 1..Len(LastPage("issues")) : LastPage("issues")[i].pull_request
  /\ calls["issues"] = <<1, 2>>

\* ---- C4 ----------------------------------------------------------------------
\* C4: the page numbers a list fetcher hands to caller.call are 1, 2, 3, ...
\* in this order, and a page is asked for again only as the retry of a call
\* that has not been answered: every page is answered at most once.
C4_PagesInOrder ==
  \A p \in ListPipelines :
    /\ \A i \in 1..Len(calls[p]) : calls[p][i] = i
    /\ Len(served[p]) =
         IF pc[p] \in {"waiting", "backoff", "failed"} THEN Len(calls[p]) - 1
         ELSE Len(calls[p])

C4_Witness ==
  \E p \in ListPipelines : Len(calls[p]) >= 3 /\ Len(served[p]) >= 3

\* ---- C5 ----------------------------------------------------------------------
\* C5: the documents of a list fetcher are, in order, a prefix of the documents
\* of the wanted items of the pages served so far, and that prefix is the
\* whole of it unless the cap has been reached.
C5_PrefixInOrder ==
  \A p \in ListPipelines :
    LET all == WantedDocs(p, Flatten(served[p])) IN
    /\ Len(documents[p]) <= Len(all)
    /\ documents[p] = SubSeq(all, 1, Len(documents[p]))
    /\ (Len(documents[p]) = Len(all)
          \/ CapReached(opts.maxResults, Len(documents[p])))

C5_Witness ==
  \E p \in ListPipelines :
    /\ pc[p] = "done" /\ Len(served[p]) >= 2 /\ Len(documents[p]) >= 3
    /\ Len(documents[p]) < Len(Flatten(served[p]))

\* ---- C6 ----------------------------------------------------------------------
\* C6: every document of fetchGitHubIssues carries the number of a served item
\* that is not flagged as a pull request, and of none that is.
C6_NoPullRequestAmongIssues ==
  \A i \in 1..Len(documents["issues"]) :
    LET items == Flatten(served["issues"]) IN
    /\ \E j \in 1..Len(items) : items[j].number = documents["issues"][i].number
    /\ \A j \in 1..Len(items) :
         items[j].number = documents["issues"][i].number => ~items[j].pull_request

C6_Witness ==
  /\ pc["issues"] = "done"
  /\ Len(documents["issues"]) >= 1
  /\ \E j \in 1..Len(Flatten(served["issues"])) :
       Flatten(served["issues"])[j].pull_request

\* ---- C7 ----------------------------------------------------------------------
\* C7: with cap K >= 1, fetchGitHubIssues returns K documents if the pages it
\* saw hold at least K issues that are not pull requests, however many pull
\* requests lie between them, and it stops with fewer only at the end of the
\* listing (a page shorter than perPage).
C7_SkippedDoNotCount ==
  (pc["issues"] = "done" /\ Capped) =>
    LET items == Flatten(served["issues"])
        issues == SelectSeq(items, LAMBDA it : ~it.pull_request)
    IN /\ Len(documents["issues"]) = Min(K, Len(issues))
       /\ Len(documents["issues"]) < K => Len(LastPage("issues")) < opts.perPage

\* K issues were returned although pull requests came before the K-th of them
C7_Witness ==
  /\ pc["issues"] = "done" /\ Capped /\ K >= 2
  /\ Len(documents["issues"]) = K
  /\ LET items == Flatten(served["issues"]) IN
     \E j \in 1..Len(items) :
       /\ items[j].pull_request
       /\ items[j].number < documents["issues"][K].number


\* ---- C8 ----------------------------------------------------------------------
\* the entries of the listings served so far that the walk has not dealt with:
\* markdown files without a document and directories never listed
Unvisited ==
  {e \in UNION {{tree[d][i] : i \in 1..Len(tree[d])} : d \in DOMAIN tree} :
     \/ /\ e.type = "file" /\ e.md
        /\ \A i \in 1..Len(documents["md"]) : documents["md"][i].path # e.path
     \/ e.type = "dir" /\ e.path \notin DOMAIN tree}

\* C8 as stated: given maxResults = K the walker holds at most K documents,
\* and once it holds K it starts no further remote call.
C8_HardStop_EveryK ==
  /\ [](opts.maxResults.set => Len(documents["md"]) <= K)
  /\ [][(opts.maxResults.set /\ Len(documents["md"]) >= K
            /\ Len(documents["md"]) >= 1)
          => (calls'["md"] = calls["md"] /\ attempt'["md"] = attempt["md"])]_vars

\* C8 amended: given maxResults = K >= 1 the walker holds at most K documents,
\* and from the moment it holds K it has returned: no further call, attempt,
\* listing or document follows.
C8_HardStop ==
  /\ []((opts.maxResults.set /\ K >= 1) => Len(documents["md"]) <= K)
  /\ []((opts.maxResults.set /\ K >= 1 /\ Len(documents["md"]) >= K)
          => pc["md"] = "done")
  /\ [][(opts.maxResults.set /\ K >= 1 /\ Len(documents["md"]) >= K)
          => /\ calls'["md"] = calls["md"]
             /\ attempt'["md"] = attempt["md"]
             /\ tree' = tree
             /\ documents'["md"] = documents["md"]]_vars

\* the walk ended on the cap inside a subdirectory, leaving entries of the
\* root behind it
C8_Witness ==
  /\ pc["md"] = "done" /\ Capped /\ Len(documents["md"]) = K
  /\ Len(documents["md"][K].path) = 2
  /\ \E e \in Unvisited : Len(e.path) = 1

\* ---- C9 ----------------------------------------------------------------------
\* the documents of the markdown files below entry i of the listing of path,
\* depth first in listing order
RECURSIVE MarkdownInOrder(_, _)
MarkdownInOrder(path, i) ==
  IF path \notin DOMAIN tree THEN <<>>
  ELSE IF i > Len(tree[path]) THEN <<>>
  ELSE LET e == tree[path][i] IN
       (IF e.type = "file" /\ e.md
          THEN <<[type |-> "markdown_file", path |-> e.path,
                  repository |-> Slug(repository.owner, repository.repo)]>>
        ELSE IF e.type = "dir" THEN MarkdownInOrder(e.path, 1)
        ELSE <<>>)
       \o MarkdownInOrder(path, i + 1)

\* C9: without a cap, fetchGitHubMarkdownFiles has listed every directory of
\* the tree when it returns, and its documents are those of the regular files
\* named *.md, one each, depth first in listing order.
C9_DepthFirstMarkdown ==
  (pc["md"] = "done" /\ ~opts.maxResults.set) =>
    /\ Unvisited = {}
    /\ documents["md"] = MarkdownInOrder(<<>>, 1)

\* a subdirectory with a markdown file comes before a markdown file of the
\* root, and the tree holds an entry named *.md that is not a regular file
C9_Witness ==
  /\ pc["md"] = "done" /\ ~opts.maxResults.set
  /\ Len(documents["md"]) >= 2
  /\ Len(documents["md"][1].path) = 2
  /\ Len(documents["md"][Len(documents["md"])].path) = 1
  /\ \E d \in DOMAIN tree : \E i \in 1..Len(tree[d]) : tree[d][i].type = "symlink"

\* ---- C10 ---------------------------------------------------------------------
\* C10: fetchGitHubRepoData fulfils only when all three pipelines have
\* returned, and then with their three lists; as soon as a pipeline has
\* failed it is rejected with the failure of a failed pipeline, and stays so.
C10_AllOrNothing ==
  /\ agg = "fulfilled" =>
       /\ \A p \in Pipelines : pc[p] = "done"
       /\ aggValue.prs = documents["prs"]
       /\ aggValue.issues = documents["issues"]
       /\ aggValue.markdownFiles = documents["md"]
  /\ (\E p \in Pipelines : pc[p] = "failed") =>
       /\ agg = "rejected"
       /\ \E p \in Pipelines : pc[p] = "failed" /\ aggValue.error = p
  /\ agg = "rejected" => \E p \in Pipelines : pc[p] = "failed"
  /\ (\A p \in Pipelines : pc[p] = "done") => agg = "fulfilled"

\* the markdown pipeline failed, the other two returned documents
C10_Witness ==
  /\ pc["md"] = "failed" /\ pc["prs"] = "done" /\ pc["issues"] = "done"
  /\ Len(documents["prs"]) >= 1 /\ Len(documents["issues"]) >= 1
  /\ agg = "rejected" /\ aggValue.error = "md"


\* ---- C11 ---------------------------------------------------------------------
\* C11: the step in which a pipeline fails while fetchGitHubRepoData is still
\* pending rejects it with the error of that very pipeline, and no later
\* step (a later failure of a sibling included) changes the rejection.
C11_FirstFailureObserved ==
  [][/\ \A p \in Pipelines :
          (agg = "pending" /\ pc[p] # "failed" /\ pc'[p] = "failed")
            => (agg' = "rejected" /\ aggValue' = err'[p] /\ aggValue'.error = p)
     /\ agg = "rejected" => (agg' = "rejected" /\ aggValue' = aggValue)]_vars

\* all three pipelines have failed and the failure observed is that of the
\* last pipeline of the join
C11_Witness ==
  /\ \A p \in Pipelines : pc[p] = "failed"
  /\ agg = "rejected" /\ aggValue.error = "md"

C13_RetryBudget ==
  /\ [](\A p \in Pipelines :
          /\ attempt[p] <= 1 + maxRetries
          /\ pc[p] = "backoff" => attempt[p] <= maxRetries
          /\ pc[p] = "failed" =>
               /\ attempt[p] = 1 + maxRetries
               /\ err[p].attempt = 1 + maxRetries /\ err[p].error = p)
  /\ [](agg = "rejected" => \E p \in Pipelines : pc[p] = "failed" /\ aggValue = err[p])
  /\ [][\A p \in Pipelines :
          /\ attempt'[p] > attempt[p] =>
               \/ /\ pc[p] = "ready" /\ attempt'[p] = 1
                  /\ Len(calls'[p]) = Len(calls[p]) + 1
               \/ /\ pc[p] = "backoff" /\ attempt'[p] = attempt[p] + 1
                  /\ calls'[p] = calls[p]
          /\ pc[p] = "failed" =>
               /\ pc'[p] = "failed" /\ err'[p] = err[p]
               /\ attempt'[p] = attempt[p] /\ calls'[p] = calls[p]]_vars

\* a pipeline failed on the third attempt of its second operation
C13_Witness ==
  \E p \in Pipelines :
    /\ pc[p] = "failed" /\ err[p].attempt = 3 /\ Len(calls[p]) = 2
    /\ agg = "rejected" /\ aggValue = err[p]

\* ---- C14 ---------------------------------------------------------------------
\* C14: whether a failed attempt is retried depends on the number of the
\* attempt alone, whatever the cause of the failure.
C14_RetryWhateverTheCause ==
  [][\A p \in Pipelines :
       (pc[p] = "waiting" /\ err'[p] # err[p]) =>
          /\ err'[p].cause \in Causes
          /\ pc'[p] = (IF attempt[p] <= maxRetries THEN "backoff" ELSE "failed")]_vars

\* a list fetcher and the tree walker each wait for their third attempt, the
\* one after an error of the operation body, the other after a network error
C14_Witness ==
  /\ pc["prs"] = "backoff" /\ attempt["prs"] = 2 /\ err["prs"].cause = "status"
  /\ pc["md"] = "backoff" /\ attempt["md"] = 2 /\ err["md"].cause = "network"


\* ---- C15 ---------------------------------------------------------------------
\* C15: during one fetchGitHubRepoData call at most maxConcurrency remote
\* calls are outstanding.
C15_AtMostTwoOutstanding ==
  agg # "none" =>
    Cardinality({p \in Pipelines : pc[p] = "waiting"}) <= maxConcurrency

\* ---- C16 ---------------------------------------------------------------------
\* entry e of a listing and everything below it has been dealt with
RECURSIVE SubtreeDone(_)
SubtreeDone(e) ==
  IF e.type = "file" /\ e.md
    THEN \E i \in 1..Len(documents["md"]) : documents["md"][i].path = e.path
  ELSE IF e.type = "dir"
    THEN /\ e.path \in DOMAIN tree
         /\ \A i \in 1..Len(tree[e.path]) : SubtreeDone(tree[e.path][i])
  ELSE TRUE

\* C16: the walker starts a remote call only while none of its calls is
\* outstanding, and the call for an entry (the listing of a subdirectory, the
\* download of a file) only when every earlier sibling and its whole subtree
\* have been dealt with.
C16_SequentialWalk ==
  [][Len(calls'["md"]) > Len(calls["md"]) =>
       LET op == calls'["md"][Len(calls'["md"])]
           parent == SubSeq(op.path, 1, Len(op.path) - 1)
       IN /\ pc["md"] = "ready" /\ Outstanding("md") = 0
          /\ op.path # <<>> =>
               \A j \in 1..(op.path[Len(op.path)] - 1) : SubtreeDone(tree[parent][j])]_vars

\* the second entry of the root, a directory, is being listed after the
\* subtree of the first, a directory holding a markdown file
C16_Witness ==
  /\ pc["md"] = "waiting"
  /\ calls["md"][Len(calls["md"])] = [op |-> "contents", path |-> <<2>>]
  /\ <<1>> \in DOMAIN tree
  /\ \E i \in 1..Len(documents["md"]) : documents["md"][i].path = <<1, 1>>

\* ---- C19 ---------------------------------------------------------------------
\* C19: once fetchGitHubRepoData is rejected, every pipeline that is still
\* running can take its next step as before (send its next call, retry, be
\* answered), while the rejection carries an error and never their documents.
C19_SiblingsRunOn ==
  agg = "rejected" =>
    /\ aggValue.error \in Pipelines
    /\ \A p \in Pipelines :
         /\ pc[p] = "ready" => ENABLED CallStart(p)
         /\ pc[p] = "backoff" => ENABLED Retry(p)
         /\ pc[p] = "waiting" =>
              /\ ENABLED AttemptFail(p)
              /\ p \in ListPipelines => ENABLED ListPageOk(p)
              /\ p = "md" => ENABLED (MdListOk \/ MdFileOk)

\* the markdown pipeline has failed the call; the pull request fetcher has
\* processed its first page and is about to request the second
C19_Witness ==
  /\ agg = "rejected" /\ aggValue.error = "md"
  /\ pc["prs"] = "ready" /\ calls["prs"] = <<1>> /\ Len(documents["prs"]) = 1

\* ---- C17 ---------------------------------------------------------------------
\* "github.com/" followed by two non-empty segments with a slash between them
OfTheForm(url) ==
  \E i \in 1..Len(url) : \E e \in 1..Len(url) : \E f \in 1..Len(url) :
    /\ url[i] = "github.com"
    /\ i + 2 <= e /\ e + 2 <= f
    /\ url[i + 1] = "/" /\ url[e + 1] = "/"
    /\ \A k \in (i + 2)..e : url[k] # "/"
    /\ \A k \in (e + 2)..f : url[k] # "/"

\* a url (a reference naming github.com) that is not of that form
Malformed(r) == Includes(r.ownerOrUrl) /\ ~OfTheForm(r.ownerOrUrl)

Names == {[k \in 1..n |-> "a"] : n \in 1..MaxUrlLen}

\* url is anything without the host, then "github.com/", owner o, a slash,
\* repository r, and then nothing or a rest set off by "/" or "?"
WellFormed(url, o, r) ==
  \E i \in 1..Len(url) :
    LET last == i + Len(o) + Len(r) + 2
        rest == SubSeq(url, last + 1, Len(url))
    IN /\ url[i] = "github.com"
       /\ \A k \in 1..(i - 1) : url[k] # "github.com"
       /\ last <= Len(url)
       /\ SubSeq(url, i + 1, last) = <<"/">> \o o \o <<"/">> \o r
       /\ rest = <<>> \/ rest[1] \in {"/", "?"}

\* C18: for every well-formed url of owner o and repository r, followed by
\* anything, parseGitHubUrl returns exactly o and r.
C18_ExactOwnerAndRepo ==
  (input.fn = "parseGitHubUrl" /\ output.done) =>
    \A o \in Names : \A r \in Names :
      WellFormed(input.arg, o, r) => output = Returned([owner |-> o, repo |-> r])

\* ---- C20 ---------------------------------------------------------------------
\* C20: building the document of a raw pull request or issue fails only when
\* the number of the item is absent.
C20_FailsOnlyWithoutNumber ==
  (input.fn \in {"pull_request", "issue"} /\ output.done /\ output.threw) =>
    ~input.arg.number.set

\* ---- C21 ---------------------------------------------------------------------
\* the state of the metadata of an item, lower-cased, is exactly "open"
OpenByMetadata(item) ==
  /\ getMetadata(item).state.set
  /\ toLowerCase(getMetadata(item).state.text) = "open"

CountedRight(items, counts) ==
  LET open == Cardinality({i \in 1..Len(items) : OpenByMetadata(items[i])}) IN
  /\ counts.open = open
  /\ counts.closed = Len(items) - open
  /\ counts.total = Len(items)
  /\ counts.total = counts.open + counts.closed

\* C21: the intake summary counts as open exactly the pull requests, and
\* exactly the issues, whose metadata state lower-cased is "open", every other
\* item as closed, and total = open + closed = the length of the list.
C21_OpenIffMetadataStateOpen ==
  (input.fn = "buildGitHubIntakeSummary" /\ output.done) =>
    /\ CountedRight(input.arg.prs, output.value.totals.pullRequests)
    /\ CountedRight(input.arg.issues, output.value.totals.issues)

\* ---- C22 ---------------------------------------------------------------------
\* the instants of the parseable updated_at of the pull requests and issues
ActivityInstants(payload) ==
  {getMetadata(payload.prs[i]).updated_at.ms :
     i \in {j \in 1..Len(payload.prs) : getMetadata(payload.prs[j]).updated_at.kind = "iso"}}
  \cup
  {getMetadata(payload.issues[i]).updated_at.ms :
     i \in {j \in 1..Len(payload.issues) : getMetadata(payload.issues[j]).updated_at.kind = "iso"}}

Latest(instants) == CHOOSE m \in instants : \A n \in instants : n <= m

SummaryDone == input.fn = "buildGitHubIntakeSummary" /\ output.done

\* C22: the most recent activity of the intake summary is the latest of the
\* parseable updated_at of all pull requests and issues together, whatever
\* their order, and null exactly when there is none.
C22_MostRecentActivity ==
  SummaryDone =>
    LET instants == ActivityInstants(input.arg) IN
    output.value.recency.lastPROrIssueActivityAt =
      (IF instants = {} THEN NoDateString ELSE IsoString(Latest(instants)))

\* the latest update is that of the second issue, after an unparseable one,
\* and later than the updates of the pull requests
C22_Witness ==
  /\ SummaryDone
  /\ Len(input.arg.prs) = 1 /\ Len(input.arg.issues) = 2
  /\ getMetadata(input.arg.prs[1]).updated_at = IsoString(halfDay)
  /\ getMetadata(input.arg.issues[1]).updated_at = InvalidDateString
  /\ getMetadata(input.arg.issues[2]).updated_at = IsoString(2 * halfDay)
  /\ output.value.recency.lastPROrIssueActivityAt = IsoString(2 * halfDay)

\* ---- C23 ---------------------------------------------------------------------
\* d is the floor of (referenceDate - instant) / one day
IsFloorOfDays(d, instant, referenceDate) ==
  /\ d * millisecondsPerDay <= referenceDate.ms - instant
  /\ referenceDate.ms - instant < (d + 1) * millisecondsPerDay

\* C23: daysSinceLastActivity is the floor of (referenceDate - most recent
\* activity) / one day, negative when the reference date comes first, and null
\* when there is no activity.
C23_DaysSinceLastActivity ==
  SummaryDone =>
    LET instants == ActivityInstants(input.arg)
        days == output.value.recency.daysSinceLastActivity
    IN IF instants = {} THEN days = Absent
       ELSE /\ days.set
            /\ IsFloorOfDays(days.val, Latest(instants), input.options.referenceDate)

\* the reference date is half a day before the activity: -1 day
C23_Witness ==
  /\ SummaryDone
  /\ input.options.referenceDate = DateOf(0)
  /\ ActivityInstants(input.arg) = {halfDay}
  /\ output.value.recency.daysSinceLastActivity = Given(0 - 1)

\* ---- C24 ---------------------------------------------------------------------
\* C24: recentActivityWithinWindow is true exactly when there is a most recent
\* activity and the floor of its days is at most recencyWindowDays, the value
\* of the options (0 included) or 14 when absent.
C24_RecentActivityWithinWindow ==
  SummaryDone =>
    LET instants == ActivityInstants(input.arg)
        window == IF input.options.recencyWindowDays.set
                    THEN input.options.recencyWindowDays.val ELSE 14
    IN output.value.recency.recentActivityWithinWindow <=>
         /\ instants # {}
         /\ \E d \in (0 - 2 - MaxHalfDays)..window :
              IsFloorOfDays(d, Latest(instants), input.options.referenceDate)

\* with a window of 0 days, an activity of the same day is recent
C24_Witness ==
  /\ SummaryDone
  /\ input.options.recencyWindowDays = Given(0)
  /\ input.options.referenceDate = DateOf(0)
  /\ ActivityInstants(input.arg) = {0}
  /\ output.value.recency.recentActivityWithinWindow

\* ---- C25 ---------------------------------------------------------------------
AttentionDone == input.fn = "buildPullRequestAttentionInsights" /\ output.done

\* the author under whom pull request i is counted
CountedUnder(i) ==
  LET a == getMetadata(input.arg[i]).author IN IF a.set THEN a.text ELSE "unknown"

PullRequestsBy(author) == {i \in 1..Len(input.arg) : CountedUnder(i) = author}
FirstBy(author) == CHOOSE i \in PullRequestsBy(author) : \A j \in PullRequestsBy(author) : i <= j

\* author x comes before author y: more pull requests, or as many and
\* encountered first
RanksBefore(x, y) ==
  \/ Cardinality(PullRequestsBy(x)) > Cardinality(PullRequestsBy(y))
  \/ /\ Cardinality(PullRequestsBy(x)) = Cardinality(PullRequestsBy(y))
     /\ FirstBy(x) < FirstBy(y)

\* C25: topContributors holds the first topContributorCount authors (3 when
\* absent) when the authors are put by descending count, authors of equal
\* count in the order of their first pull request; the count of an entry is
\* the number of pull requests by its author, absent authors being "unknown".
C25_TopContributors ==
  AttentionDone =>
    LET top == output.value.topContributors
        authors == {CountedUnder(i) : i \in 1..Len(input.arg)}
        n == IF input.options.topContributorCount.set
               THEN input.options.topContributorCount.val ELSE 3
    IN /\ Len(top) = (IF n < Cardinality(authors) THEN n ELSE Cardinality(authors))
       /\ \A k \in 1..Len(top) :
            /\ top[k].author \in authors
            /\ top[k].pullRequestCount = Cardinality(PullRequestsBy(top[k].author))
       /\ \A k \in 1..Len(top) : \A l \in 1..Len(top) :
            k < l => RanksBefore(top[k].author, top[l].author)
       /\ \A k \in 1..Len(top) :
            \A x \in authors \ {top[l].author : l \in 1..Len(top)} :
              RanksBefore(top[k].author, x)

\* of b, a, a, c the first two contributors are a with 2 and then b, which has
\* as many pull requests as c and came first
C25_Witness ==
  /\ AttentionDone
  /\ Len(input.arg) = 4
  /\ [i \in 1..4 |-> CountedUnder(i)] = <<"b", "a", "a", "c">>
  /\ input.options.topContributorCount = Given(2)
  /\ output.value.topContributors =
       <<[author |-> "a", pullRequestCount |-> 2], [author |-> "b", pullRequestCount |-> 1]>>

\* ---- C26 ---------------------------------------------------------------------
\* pull request i is open and was updated at least staleAfterDays whole days
\* before the reference date
ShouldBeStale(i) ==
  LET metadata == getMetadata(input.arg[i])
      after == IF input.options.staleAfterDays.set
                 THEN input.options.staleAfterDays.val ELSE 7
  IN /\ OpenByMetadata(input.arg[i])
     /\ metadata.updated_at.kind = "iso"
     /\ input.options.referenceDate.ms - metadata.updated_at.ms
          >= after * millisecondsPerDay

Indices(n) == [i \in 1..n |-> i]

\* C26: stalePullRequests lists exactly the open pull requests updated at
\* least staleAfterDays whole days before the reference date, in input order;
\* totals.stale is its length and the suggested action is the one about stale
\* pull requests exactly when it is not empty.
C26_StalePullRequests ==
  AttentionDone =>
    LET stale == output.value.stalePullRequests IN
    /\ [k \in 1..Len(stale) |-> stale[k].number]
         = SelectSeq(Indices(Len(input.arg)), ShouldBeStale)
    /\ output.value.totals.stale = Len(stale)
    /\ (output.value.suggestedAction
          = "Reach out to reviewers on the stale pull requests to unblock merges.")
         <=> Len(stale) > 0

\* with the default of 7 days and a reference date 7.5 days on: the closed pull
\* request is not listed, the open one updated on day 0 is
C26_Witness ==
  /\ AttentionDone
  /\ input.options.staleAfterDays = Absent
  /\ input.options.referenceDate = DateOf(15 * halfDay)
  /\ Len(input.arg) = 2
  /\ getMetadata(input.arg[1]).state = Str("closed")
  /\ getMetadata(input.arg[1]).updated_at = IsoString(0)
  /\ getMetadata(input.arg[2]).state = Str("Open")
  /\ getMetadata(input.arg[2]).updated_at = IsoString(0)
  /\ Len(output.value.stalePullRequests) = 1
  /\ output.value.stalePullRequests[1].number = 2
  /\ output.value.stalePullRequests[1].daysSinceUpdate = 7

\* ---- C27 ---------------------------------------------------------------------
TriageDone == input.fn = "buildIssueTriageSnapshot" /\ output.done

\* the spellings of one label that differ in case only
CaseClasses ==
  {{"Blocker", "blocker"}, {"P0", "p0"}, {"Good First Issue", "good first issue"},
   {"Security", "security"}, {"DOCS", "docs"}}
SameIgnoringCase(a, b) == a = b \/ \E c \in CaseClasses : a \in c /\ b \in c

\* the keywords of a category: those of the options, else the defaults
Keywords(category) ==
  CASE category = "blockers" ->
         IF input.options.blockerLabels.set
           THEN {input.options.blockerLabels.names[k] :
                   k \in 1..Len(input.options.blockerLabels.names)}
         ELSE {"blocker", "critical", "p0", "urgent"}
    [] category = "onboarding" -> {"good first issue", "starter", "help wanted"}
    [] category = "security" -> {"security", "vulnerability", "cve"}

LabelsOfIssue(i) ==
  LET l == getMetadata(input.arg[i]).labels IN
  IF l.set THEN {l.names[k] : k \in 1..Len(l.names)} ELSE {}

MatchesCategory(i, category) ==
  \E label \in LabelsOfIssue(i) : \E needle \in Keywords(category) :
    SameIgnoringCase(label, needle)

ExpectedBucket(i) ==
  IF MatchesCategory(i, "blockers") THEN "blockers"
  ELSE IF MatchesCategory(i, "onboarding") THEN "onboarding"
  ELSE IF MatchesCategory(i, "security") THEN "security"
  ELSE "otherOpen"

\* the places of issue i in bucket b
PlacesIn(b, i) ==
  {k \in 1..Len(output.value.buckets[b]) : output.value.buckets[b][k].number = i}

\* C27: every open issue is in exactly one bucket, once: the first of
\* blockers, onboarding, security whose keywords match one of its labels
\* whatever the case, otherOpen when none does.
C27_FirstMatchingBucket ==
  TriageDone =>
    \A i \in 1..Len(input.arg) :
      OpenByMetadata(input.arg[i]) =>
        \A b \in BucketNames :
          Cardinality(PlacesIn(b, i)) = (IF b = ExpectedBucket(i) THEN 1 ELSE 0)

\* an issue labelled "Good First Issue" and "P0" is a blocker only, and one
\* labelled "security" and "good first issue" is an onboarding issue only
C27_Witness ==
  /\ TriageDone
  /\ input.options.blockerLabels = NoList
  /\ Len(input.arg) = 2
  /\ getMetadata(input.arg[1]).labels = ListOf(<<"Good First Issue", "P0">>)
  /\ getMetadata(input.arg[2]).labels = ListOf(<<"security", "good first issue">>)
  /\ Len(output.value.buckets.blockers) = 1
  /\ output.value.buckets.blockers[1].number = 1
  /\ Len(output.value.buckets.onboarding) = 1
  /\ output.value.buckets.onboarding[1].number = 2
  /\ output.value.buckets.security = <<>>
  /\ output.value.buckets.otherOpen = <<>>

\* ---- C28 ---------------------------------------------------------------------
BlockerAction == "Prioritise the blocker issues first to stabilise the project."

\* C28: no issue that is not open is in a bucket; totals.openIssues is the sum
\* of the sizes of the four buckets and the number of open issues of the
\* input; the suggested action is the one about blockers exactly when the
\* blockers bucket is not empty.
C28_ClosedIssuesDropped ==
  TriageDone =>
    LET buckets == output.value.buckets
        open == {i \in 1..Len(input.arg) : OpenByMetadata(input.arg[i])}
    IN /\ \A i \in 1..Len(input.arg) :
            i \notin open => \A b \in BucketNames : PlacesIn(b, i) = {}
       /\ output.value.totals.openIssues
            = Len(buckets.blockers) + Len(buckets.onboarding)
              + Len(buckets.security) + Len(buckets.otherOpen)
       /\ output.value.totals.openIssues = Cardinality(open)
       /\ (output.value.suggestedAction = BlockerAction) <=> buckets.blockers # <<>>

\* a closed issue and an issue without state, both labelled "Blocker", are
\* dropped; the open issue labelled "docs" is the only one counted
C28_Witness ==
  /\ TriageDone
  /\ input.options.blockerLabels = NoList
  /\ Len(input.arg) = 3
  /\ getMetadata(input.arg[1]).state = Str("closed")
  /\ getMetadata(input.arg[2]).state = Null
  /\ getMetadata(input.arg[3]).state = Str("open")
  /\ getMetadata(input.arg[3]).labels = ListOf(<<"docs">>)
  /\ output.value.totals.openIssues = 1
  /\ Len(output.value.buckets.otherOpen) = 1
  /\ output.value.suggestedAction # BlockerAction

\* ---- C29 ---------------------------------------------------------------------
\* the fetcher that was called
Called(p) == pc[p] # "idle"

\* C29: with maxResults 0, as with maxResults absent, a list fetcher treats
\* every page as the uncapped fetcher does (every wanted item becomes a
\* document, the length of the page alone decides whether to go on) and so
\* holds the documents of all wanted items of the pages served; the walker
\* returns only when every directory is listed and every markdown file has
\* its document.
C29_ZeroIsNoCap ==
  /\ [](~Capped =>
          /\ \A p \in ListPipelines :
               /\ documents[p] = WantedDocs(p, Flatten(served[p]))
               /\ calls[p] = [n \in 1..Len(calls[p]) |-> n]
               /\ pc[p] = "done" =>
                    (served[p] # <<>> /\ Len(LastPage(p)) < opts.perPage)
          /\ pc["md"] = "done" =>
               (Unvisited = {} /\ documents["md"] = MarkdownInOrder(<<>>, 1)))
  /\ [][~Capped =>
          \A p \in ListPipelines :
            served'[p] # served[p] =>
              LET items == served'[p][Len(served'[p])]
                  uncapped == ProcessItems(p, Absent, documents[p], items, 1)
              IN /\ documents'[p] = uncapped.docs
                 /\ hasMore'[p] = HasMoreAfter(p, items, uncapped.broke, opts.perPage)
                 /\ pc'[p] = (IF hasMore'[p] THEN "ready" ELSE "done")]_vars

\* with maxResults 0 a list fetcher has returned documents of two pages
C29_Witness ==
  /\ opts.maxResults = Given(0)
  /\ \E p \in ListPipelines :
       pc[p] = "done" /\ Len(served[p]) >= 2 /\ Len(documents[p]) >= 2

\* with maxResults 0 the walker has returned the document of a markdown file
\* of a subdirectory
C29_WitnessWalker ==
  /\ opts.maxResults = Given(0)
  /\ pc["md"] = "done" /\ Len(documents["md"]) >= 1
  /\ Len(documents["md"][1].path) = 2

\* ---- C30 ---------------------------------------------------------------------
\* the list a fetcher is to return for what the upstream has served: all
\* documents of the wanted items, or the first K of them under a cap
CompleteList(p) ==
  LET all == WantedDocs(p, Flatten(served[p])) IN
  SubSeq(all, 1, IF Capped THEN Min(K, Len(all)) ELSE Len(all))

\* fetcher p has reached one of its stop conditions with every call answered
Complete(p) ==
  IF p \in ListPipelines
    THEN /\ Len(calls[p]) = Len(served[p]) /\ served[p] # <<>>
         /\ documents[p] = CompleteList(p)
         /\ \/ Len(LastPage(p)) < opts.perPage
            \/ Capped /\ Len(documents[p]) = K
  ELSE /\ Len(calls[p]) = Cardinality(DOMAIN tree) + Len(documents[p])
       /\ \/ Unvisited = {}
          \/ Capped /\ Len(documents[p]) = K

\* C30: a fetcher fails exactly when a call has used up its attempts, and then
\* for good: nothing of its documents is returned, whatever it had collected;
\* a fetcher that returns has had every call answered and returns the complete
\* list up to its stop condition.
C30_CompleteOrFailed ==
  /\ [](\A p \in Pipelines :
          /\ pc[p] = "failed" => (attempt[p] = maxRetries + 1 /\ err[p].error = p)
          /\ pc[p] = "done" => (Complete(p) /\ err[p] = NoError))
  /\ [][\A p \in Pipelines :
          /\ pc[p] = "failed" =>
               (pc'[p] = "failed" /\ documents'[p] = documents[p] /\ calls'[p] = calls[p])
          /\ (pc[p] = "waiting" /\ attempt[p] = maxRetries + 1 /\ err'[p] # NoError)
               => pc'[p] = "failed"]_vars

\* the second page of a list fetcher has failed for good: the documents of the
\* first page are lost with the call
C30_Witness ==
  \E p \in ListPipelines :
    /\ pc[p] = "failed"
    /\ Len(served[p]) = 1 /\ Len(calls[p]) = 2
    /\ Len(documents[p]) >= 1

\* ---- C31 ---------------------------------------------------------------------
\* the documents a list fetcher holds after the pages given, when no attempt
\* fails: the for loop run over each page in turn
RECURSIVE FailureFree(_, _, _)
FailureFree(p, pages, docs) ==
  IF pages = <<>> THEN docs
  ELSE FailureFree(p, Tail(pages),
                   IF Len(Head(pages)) = 0 THEN docs
                   ELSE ProcessItems(p, opts.maxResults, docs, Head(pages), 1).docs)

\* an attempt of fetcher p fails and is to be retried, or its retry is sent
RetryStep(p) ==
  \/ pc[p] = "waiting" /\ pc'[p] = "backoff"
  \/ pc[p] = "backoff" /\ pc'[p] = "waiting"

\* C31: failed attempts that are retried leave no trace in the result.  A
\* failure and its retry change nothing of what a fetcher has collected or of
\* where it stands, and the retry sends the operation that failed; so at
\* every moment, and when it returns, a fetcher holds the documents that the
\* fetch without failures holds for the same upstream answers: none twice,
\* none missing, in the same order.
C31_RetriesTransparent ==
  /\ [][\A p \in Pipelines :
          RetryStep(p) =>
            /\ documents'[p] = documents[p]
            /\ calls'[p] = calls[p]
            /\ tree' = tree /\ stack' = stack
            /\ p \in ListPipelines =>
                 /\ page'[p] = page[p] /\ hasMore'[p] = hasMore[p]
                 /\ served'[p] = served[p]]_vars
  /\ [](\A p \in Pipelines :
          /\ pc[p] \in {"waiting", "backoff"} =>
               (calls[p] # <<>> /\ calls[p][Len(calls[p])] = Operation(p))
          /\ \A i, j \in 1..Len(calls[p]) : calls[p][i] = calls[p][j] => i = j)
  /\ [](\A p \in ListPipelines :
          documents[p] = FailureFree(p, served[p], <<>>))
  /\ [](LET all == MarkdownInOrder(<<>>, 1)
            n == Len(documents["md"])
        IN /\ n <= Len(all)
           /\ documents["md"] = SubSeq(all, 1, n)
           /\ pc["md"] = "done" =>
                n = (IF Capped THEN Min(K, Len(all)) ELSE Len(all)))

\* the request of the second page is at its last attempt, two attempts of it
\* having failed, and the documents of the first page are as they were
C31_Witness ==
  \E p \in ListPipelines :
    /\ pc[p] = "waiting" /\ attempt[p] = maxRetries + 1
    /\ calls[p] = <<1, 2>> /\ page[p] = 2
    /\ Len(served[p]) = 1
    /\ documents[p] # <<>>
    /\ documents[p] = WantedDocs(p, served[p][1])

\* ---- C32 ---------------------------------------------------------------------
\* every fetcher that was called has returned or failed
AllSettled == \A p \in Pipelines : Called(p) => pc[p] \in {"done", "failed"}

\* C32: with finite listings and a finite tree, and every remote call
\* returning or failing in the end, every fetcher returns or fails, and with
\* them fetchGitHubRepoData has settled; a list fetcher asks for at most
\* floor(N / perPage) + 1 pages when the listing has served N items.
C32_SettlesWithinPages ==
  /\ <>AllSettled
  /\ [](AllSettled => agg # "pending")
  /\ [](\A p \in ListPipelines :
          Len(calls[p]) <= (ItemsServed(served[p]) \div opts.perPage) + 1)

\* a list fetcher has returned after two full pages and the empty page behind
\* them: floor(N / perPage) + 1 pages for the N items of the listing
C32_Witness ==
  \E p \in ListPipelines :
    /\ pc[p] = "done"
    /\ Len(served[p]) = 3 /\ Len(LastPage(p)) = 0
    /\ Len(calls[p]) = (ItemsServed(served[p]) \div opts.perPage) + 1

\* fetchGitHubRepoData has returned the documents of three fetchers
C32_WitnessJoin ==
  /\ agg = "fulfilled"
  /\ \A p \in Pipelines : Len(documents[p]) = 1

\* ---- C33 ---------------------------------------------------------------------
\* the repository the requests of the fetchers go to: /repos/<owner>/<repo>/...
Queried == Slug(ResolveRepository(ref).value.owner, ResolveRepository(ref).value.repo)

\* the documents of all fetchers
AllDocuments ==
  UNION {{documents[p][i] : i \in 1..Len(documents[p])} : p \in Pipelines}

Awaiting == input.fn = "getGitHubRepoData" /\ ~output.done

\* C34: the resolver getGitHubRepoData returns, it never throws.  With owner,
\* repo or accessToken missing it returns {success: false, error} and no
\* fetcher is called, so no remote call is ever sent.  Otherwise it returns
\* when fetchGitHubRepoData has settled: on a rejection {success: false,
\* error} with the message of that rejection, on a result success: true with
\* the three lists and total the sum of their lengths.
C34_ResolverNeverFails ==
  /\ [](output.done => ~output.threw)
  /\ [](Missing(input.payload) =>
          /\ \A p \in Pipelines : pc[p] = "idle" /\ calls[p] = <<>> /\ attempt[p] = 0
          /\ agg = "none"
          /\ output.done =>
               output.value = [success |-> FALSE, error |-> MissingParameters])
  /\ []((~Missing(input.payload) /\ output.done) =>
          /\ agg = "rejected" =>
               /\ \E p \in Pipelines : pc[p] = "failed" /\ aggValue = err[p]
               /\ output.value = [success |-> FALSE, error |-> Message(aggValue)]
          /\ agg = "fulfilled" =>
               /\ output.value.success
               /\ output.value.prs = documents["prs"]
               /\ output.value.issues = documents["issues"]
               /\ output.value.markdownFiles = documents["md"]
               /\ output.value.total =
                    Len(documents["prs"]) + Len(documents["issues"]) + Len(documents["md"])
          /\ agg \in {"rejected", "fulfilled"})
  /\ []((Awaiting /\ (agg \in {"rejected", "fulfilled"} \/ Missing(input.payload)))
          => ENABLED (ResolverCall \/ ResolverReturn))
  /\ [][output.done => output' = output]_vars

\* the resolver has returned the message of a call that failed for good
\* after another fetcher had collected a document
C34_Witness ==
  /\ output.done /\ ~output.threw /\ ~output.value.success
  /\ output.value.error.cause \in Causes
  /\ \E p \in Pipelines : Len(documents[p]) = 1

\* the resolver has returned three documents, one of each kind
C34_WitnessTotal ==
  /\ output.done /\ output.value.success
  /\ output.value.total = 3
  /\ \A p \in Pipelines : Len(documents[p]) = 1

\* the resolver has returned for a payload without accessToken
C34_WitnessMissing ==
  /\ output.done /\ ~output.value.success
  /\ input.payload.accessToken = NoName /\ input.payload.owner = PlainOwner
  /\ output.value.error = MissingParameters

====
